---- MODULE Spec2Model ----
(***************************************************************************)
(* Model of the IR camera coverage engine (src/simulation/camera.py) and   *)
(* of the working set kept by its caller (src/simulation/app.py).          *)
(*                                                                         *)
(* Numbers.  A float is modelled as an exact rational <<n, d>> (d > 0, in  *)
(* lowest terms).  Lengths are millimetres.  The two places where float64  *)
(* rounds an irrational or long result are modelled by explicit rounding:  *)
(* Sqrt is exact on rational squares and rounded down otherwise, and the   *)
(* coordinates returned by a projection are rounded to the nearest whole   *)
(* millimetre (Fl).  An angle is the integer direction <<c, s>> of lowest  *)
(* terms: it stands for atan2(s, c), so <<1, 0>> is 0 degrees, <<0, 1>> is *)
(* 90 degrees and <<4, 3>> is atan(3/4); its cosine and sine are c and s   *)
(* divided by Sqrt(c*c + s*s).                                             *)
(***************************************************************************)
EXTENDS Integers, Sequences, FiniteSets, TLC

VARIABLES cameras, next_camera_id, result, memo

vars == <<cameras, next_camera_id, result, memo>>

----------------------------------------------------------------------------
(* Exact rational arithmetic: the float operators +, -, *, / and <.        *)

Abs(n) == IF n < 0 THEN -n ELSE n

RECURSIVE GCD(_, _)
GCD(a, b) == IF b = 0 THEN a ELSE GCD(b, a % b)

Sign(n) == IF n < 0 THEN -1 ELSE IF n = 0 THEN 0 ELSE 1

Reduced(n, d, g) == <<Sign(d) * (n \div g), Abs(d) \div g>>

Rat(n, d) == Reduced(n, d, GCD(Abs(n), Abs(d)))

I(n) == <<n, 1>>

AddOver(a, b, g) ==
    Rat(a[1] * (b[2] \div g) + b[1] * (a[2] \div g), (a[2] \div g) * b[2])

RAdd(a, b) ==
    IF a[2] = 1 /\ b[2] = 1 THEN <<a[1] + b[1], 1>>
    ELSE IF a[1] = 0 /\ a[2] = 1 THEN b
    ELSE IF b[1] = 0 /\ b[2] = 1 THEN a
    ELSE AddOver(a, b, GCD(a[2], b[2]))

RNeg(a) == <<-a[1], a[2]>>

RSub(a, b) == RAdd(a, RNeg(b))

MulOver(a, b, g1, g2) ==
    <<(a[1] \div g1) * (b[1] \div g2), (a[2] \div g2) * (b[2] \div g1)>>

RMul(a, b) ==
    IF a[2] = 1 /\ b[2] = 1 THEN <<a[1] * b[1], 1>>
    ELSE IF a[1] = 0 \/ b[1] = 0 THEN <<0, 1>>
    ELSE MulOver(a, b, GCD(Abs(a[1]), b[2]), GCD(Abs(b[1]), a[2]))

RInv(a) == <<Sign(a[1]) * a[2], Abs(a[1])>>

RDiv(a, b) == RMul(a, RInv(b))

LtOver(a, b, g) == a[1] * (b[2] \div g) < b[1] * (a[2] \div g)

RLt(a, b) ==
    IF a[2] = 1 /\ b[2] = 1 THEN a[1] < b[1]
    ELSE LtOver(a, b, GCD(a[2], b[2]))

RLe(a, b) == ~RLt(b, a)

RMin(a, b) == IF RLt(b, a) THEN b ELSE a

RMax(a, b) == IF RLt(a, b) THEN b ELSE a

RAbs(a) == <<Abs(a[1]), a[2]>>

Floor(a) == a[1] \div a[2]

Ceil(a) == -((-a[1]) \div a[2])

(* round(): numpy and Python round half to even *)
RoundFrom(f, rem2, d) ==
    IF rem2 < d THEN f
    ELSE IF rem2 > d THEN f + 1
    ELSE IF f % 2 = 0 THEN f ELSE f + 1

Round(a) == RoundFrom(a[1] \div a[2], 2 * (a[1] % a[2]), a[2])

(* float64 rounding of a projected coordinate, at the model's precision *)
Fl(a) == I(Round(a))

RECURSIVE SqrtSearch(_, _, _)
SqrtSearch(n, lo, hi) ==
    IF lo >= hi THEN lo
    ELSE IF (lo + hi + 1) \div 2 <= n \div ((lo + hi + 1) \div 2)
         THEN SqrtSearch(n, (lo + hi + 1) \div 2, hi)
         ELSE SqrtSearch(n, lo, (lo + hi + 1) \div 2 - 1)

(* the integer square root, rounded down *)
ISqrt(n) == IF n <= 0 THEN 0 ELSE SqrtSearch(n, 1, IF n < 46340 THEN n ELSE 46340)

SqrtFrom(a, rn, rd) ==
    IF rn * rn = a[1] /\ rd * rd = a[2] THEN <<rn, rd>>
    ELSE IF a[1] < 2000000000 \div a[2] THEN Rat(ISqrt(a[1] * a[2]), a[2])
    ELSE I(ISqrt(a[1] \div a[2]))

(* np.sqrt / np.linalg.norm: exact on rational squares, else rounded down *)
Sqrt(a) == SqrtFrom(a, ISqrt(a[1]), ISqrt(a[2]))

----------------------------------------------------------------------------
(* Angles in degrees, as integer directions.                               *)

Zero == <<1, 0>>

AngleNorm(a) == Sqrt(I(a[1] * a[1] + a[2] * a[2]))

(* np.cos(np.radians(a)), np.sin(np.radians(a)) *)
Cos(a) == RDiv(I(a[1]), AngleNorm(a))

Sin(a) == RDiv(I(a[2]), AngleNorm(a))

(* np.tan(np.radians(a) / 2) for 0 <= a < 180: sin / (1 + cos) *)
TanHalfFrom(n, a) == RDiv(RDiv(I(a[2]), n), RAdd(I(1), RDiv(I(a[1]), n)))

TanHalf(a) == TanHalfFrom(AngleNorm(a), a)

IntDirection(cx, sy, g) == <<cx \div g, sy \div g>>

AtanScaled(y, x, m) ==
    IntDirection((x[1] * m) \div x[2], (y[1] * m) \div y[2],
                 GCD(Abs((x[1] * m) \div x[2]), Abs((y[1] * m) \div y[2])))

(* np.degrees(np.arctan2(y, x)), (x, y) # (0, 0) *)
Atan2(y, x) == AtanScaled(y, x, (x[2] \div GCD(x[2], y[2])) * y[2])

----------------------------------------------------------------------------
(* 3-vectors and 3x3 matrices of rationals (numpy arrays).                 *)

Dot3(a, b) == RAdd(RAdd(RMul(a[1], b[1]), RMul(a[2], b[2])), RMul(a[3], b[3]))

Column(B, c) == <<B[1][c], B[2][c], B[3][c]>>

MatVec(M, v) == [r \in 1..3 |-> Dot3(M[r], v)]

MatMul(A, B) == [r \in 1..3 |-> [c \in 1..3 |-> Dot3(A[r], Column(B, c))]]

----------------------------------------------------------------------------
(* CameraSpec and Camera.                                                  *)

CameraSpec(rx, ry, fh, fv) ==
    [resolution_x |-> rx, resolution_y |-> ry, fov_h |-> fh, fov_v |-> fv]

Camera(id, x, y, z, tilt, dir, spec) ==
    [id |-> id, x |-> x, y |-> y, z |-> z,
     tilt_angle |-> tilt, tilt_direction |-> dir, spec |-> spec]

(* angle of pixel p on an axis of n pixels, as a fraction of the fov *)
(* the pixel-centre convention: (p - n/2) / n *)
PixelFrac_Cells(p, n) == RDiv(RSub(p, RDiv(I(n), I(2))), I(n))

PixelFrac(p, n) == RDiv(RSub(p, RDiv(I(n - 1), I(2))), I(n - 1))

(* angle_h, angle_v of pixel_to_world, in the unit of fov *)
pixel_angle(p, n, fov) == RMul(PixelFrac(p, n), fov)

(* np.tan(frac * fov_rad) for the pixel fractions the model uses: the axis *)
(* (0) and the two edges of the field of view (-1/2, 1/2)                  *)
TanFrac(frac, fov) ==
    CASE frac = <<0, 1>> -> I(0)
      [] frac = <<1, 2>> -> TanHalf(fov)
      [] frac = <<-1, 2>> -> RNeg(TanHalf(fov))

far_distance == 10000

RayZLimit == <<-1, 1000>>

Normalized(v) == [k \in 1..3 |-> RDiv(v[k], Sqrt(Dot3(v, v)))]

ray_local(cam, px, py) ==
    Normalized(<<TanFrac(PixelFrac(px, cam.spec.resolution_x), cam.spec.fov_h),
                 TanFrac(PixelFrac(py, cam.spec.resolution_y), cam.spec.fov_v),
                 I(-1)>>)

Ry(cos_t, sin_t) ==
    << <<cos_t, I(0), sin_t>>,
       <<I(0), I(1), I(0)>>,
       <<RNeg(sin_t), I(0), cos_t>> >>

Rz_neg(cos_d, sin_d) ==
    << <<cos_d, sin_d, I(0)>>,
       <<RNeg(sin_d), cos_d, I(0)>>,
       <<I(0), I(0), I(1)>> >>

Rz_pos(cos_d, sin_d) ==
    << <<cos_d, RNeg(sin_d), I(0)>>,
       <<sin_d, cos_d, I(0)>>,
       <<I(0), I(0), I(1)>> >>

(* Rz(+dir) @ Ry(tilt) @ Rz(-dir) *)
Rotation(cos_t, sin_t, cos_d, sin_d) ==
    MatMul(MatMul(Rz_pos(cos_d, sin_d), Ry(cos_t, sin_t)), Rz_neg(cos_d, sin_d))

R_combined(cam) ==
    Rotation(Cos(cam.tilt_angle), Sin(cam.tilt_angle),
             Cos(cam.tilt_direction), Sin(cam.tilt_direction))

ray_tilted(cam, px, py) == MatVec(R_combined(cam), ray_local(cam, px, py))

(* the point of the ray at parameter t, seen from above *)
RayPoint(cam, t, ray) ==
    <<Fl(RAdd(cam.x, RMul(t, ray[1]))), Fl(RAdd(cam.y, RMul(t, ray[2])))>>

(* a ray that does not descend reported as a miss: (None, None) *)
PlaneHit_Miss(cam, ray) ==
    IF RLe(<<-1, 1000>>, ray[3])
    THEN <<<<0, -1>>, <<0, -1>>>>
    ELSE RayPoint(cam, RDiv(RNeg(cam.z), ray[3]), ray)

(* the intersection parameter with the wrong sign: t = z / ray_z *)
PlaneHit_Behind(cam, ray) ==
    IF RLe(RayZLimit, ray[3])
    THEN RayPoint(cam, I(far_distance), ray)
    ELSE RayPoint(cam, RDiv(cam.z, ray[3]), ray)

(* the ray-plane intersection of pixel_to_world *)
PlaneHit(cam, ray) ==
    IF RLe(RayZLimit, ray[3])
    THEN RayPoint(cam, I(far_distance), ray)
    ELSE RayPoint(cam, RDiv(RNeg(cam.z), ray[3]), ray)

(* a projection that gives up on a ray that does not descend: (None, None) *)
pixel_to_world_Unsaturated(cam, px, py) ==
    IF RLe(RayZLimit, ray_tilted(cam, px, py)[3])
    THEN << <<0, -1>>, <<0, -1>> >>
    ELSE PlaneHit(cam, ray_tilted(cam, px, py))

(* Camera.pixel_to_world: px, py are rationals; returns <<world_x, world_y>> *)
pixel_to_world(cam, px, py) == PlaneHit(cam, ray_tilted(cam, px, py))

(* the pixel-grid centre ((rx-1)/2, (ry-1)/2) *)
CenterPixel(spec) ==
    <<RDiv(I(spec.resolution_x - 1), I(2)), RDiv(I(spec.resolution_y - 1), I(2))>>

(* the extreme pixels row by row: (0,0), (rx-1,0), (0,ry-1), (rx-1,ry-1) *)
corner_pixels_Rows(spec) ==
    << <<0, 0>>,
       <<spec.resolution_x - 1, 0>>,
       <<0, spec.resolution_y - 1>>,
       <<spec.resolution_x - 1, spec.resolution_y - 1>> >>

corner_pixels(spec) ==
    << <<0, 0>>,
       <<spec.resolution_x - 1, 0>>,
       <<spec.resolution_x - 1, spec.resolution_y - 1>>,
       <<0, spec.resolution_y - 1>> >>

Max4(s) == RMax(RMax(RMax(s[1], s[2]), s[3]), s[4])

Min4(s) == RMin(RMin(RMin(s[1], s[2]), s[3]), s[4])

Extent(s) == RSub(Max4(s), Min4(s))

(* rotation_matrix @ base_corner + (x, y) *)
RotatedCorner(cam, cos_d, sin_d, bx, by) ==
    <<Fl(RAdd(RSub(RMul(cos_d, bx), RMul(sin_d, by)), cam.x)),
      Fl(RAdd(RAdd(RMul(sin_d, bx), RMul(cos_d, by)), cam.y))>>

(* width and height taken from the extents of the rotated corners *)
FootprintNadir_Extent(cam, half_h, half_v, cos_d, sin_d) ==
    [corners |-> << RotatedCorner(cam, cos_d, sin_d, RNeg(half_h), RNeg(half_v)),
                    RotatedCorner(cam, cos_d, sin_d, half_h, RNeg(half_v)),
                    RotatedCorner(cam, cos_d, sin_d, half_h, half_v),
                    RotatedCorner(cam, cos_d, sin_d, RNeg(half_h), half_v) >>,
     center |-> <<cam.x, cam.y>>,
     width |-> Extent(<<RotatedCorner(cam, cos_d, sin_d, RNeg(half_h), RNeg(half_v))[1],
                        RotatedCorner(cam, cos_d, sin_d, half_h, RNeg(half_v))[1],
                        RotatedCorner(cam, cos_d, sin_d, half_h, half_v)[1],
                        RotatedCorner(cam, cos_d, sin_d, RNeg(half_h), half_v)[1]>>),
     height |-> Extent(<<RotatedCorner(cam, cos_d, sin_d, RNeg(half_h), RNeg(half_v))[2],
                         RotatedCorner(cam, cos_d, sin_d, half_h, RNeg(half_v))[2],
                         RotatedCorner(cam, cos_d, sin_d, half_h, half_v)[2],
                         RotatedCorner(cam, cos_d, sin_d, RNeg(half_h), half_v)[2]>>)]

(* calculate_footprint, the branch tilt_angle == 0 *)
FootprintNadir(cam, half_h, half_v, cos_d, sin_d) ==
    [corners |-> << RotatedCorner(cam, cos_d, sin_d, RNeg(half_h), RNeg(half_v)),
                    RotatedCorner(cam, cos_d, sin_d, half_h, RNeg(half_v)),
                    RotatedCorner(cam, cos_d, sin_d, half_h, half_v),
                    RotatedCorner(cam, cos_d, sin_d, RNeg(half_h), half_v) >>,
     center |-> <<cam.x, cam.y>>,
     width |-> RMul(half_h, I(2)),
     height |-> RMul(half_v, I(2))]

CornerOf(cam, pixel) == pixel_to_world(cam, I(pixel[1]), I(pixel[2]))

(* calculate_footprint, the branch tilt_angle != 0, from the projections *)
FootprintTilted(corners, center) ==
    [corners |-> corners,
     center |-> center,
     width |-> Extent([k \in 1..4 |-> corners[k][1]]),
     height |-> Extent([k \in 1..4 |-> corners[k][2]])]

(* Camera.calculate_footprint: [corners, center, width, height] *)
calculate_footprint(cam) ==
    IF cam.tilt_angle = Zero
    THEN FootprintNadir(cam, RMul(cam.z, TanHalf(cam.spec.fov_h)),
                             RMul(cam.z, TanHalf(cam.spec.fov_v)),
                             Cos(cam.tilt_direction), Sin(cam.tilt_direction))
    ELSE FootprintTilted(
             [k \in 1..4 |-> CornerOf(cam, corner_pixels(cam.spec)[k])],
             pixel_to_world(cam,
                 RSub(RDiv(I(cam.spec.resolution_x), I(2)), <<1, 2>>),
                 RSub(RDiv(I(cam.spec.resolution_y), I(2)), <<1, 2>>)))

(* Camera.get_coverage_polygon *)
get_coverage_polygon(cam) == calculate_footprint(cam).corners

(* the threshold taken inclusively: a distance of exactly 1 mm gives (0, 0) *)
AimFrom_Inclusive(cam, dx, dy, horizontal_dist) ==
    IF RLe(horizontal_dist, I(1))
    THEN <<Zero, Zero>>
    ELSE <<Atan2(horizontal_dist, cam.z), Atan2(dy, dx)>>

(* the tilt measured from straight up instead of straight down *)
AimFrom_FromZenith(cam, dx, dy, horizontal_dist) ==
    IF RLt(horizontal_dist, I(1))
    THEN <<Zero, Zero>>
    ELSE <<Atan2(horizontal_dist, RNeg(cam.z)), Atan2(dy, dx)>>

AimFrom(cam, dx, dy, horizontal_dist) ==
    IF RLt(horizontal_dist, I(1))
    THEN <<Zero, Zero>>
    ELSE <<Atan2(horizontal_dist, cam.z), Atan2(dy, dx)>>

Hypot(dx, dy) == Sqrt(RAdd(RMul(dx, dx), RMul(dy, dy)))

AimDelta(cam, dx, dy) == AimFrom(cam, dx, dy, Hypot(dx, dy))

(* auto_tilt_to_center: <<tilt_angle, tilt_direction>> *)
auto_tilt_to_center(cam, battery_width, battery_height) ==
    AimDelta(cam, RSub(RDiv(battery_width, I(2)), cam.x),
                  RSub(RDiv(battery_height, I(2)), cam.y))

----------------------------------------------------------------------------
(* The grid engine.  A grid is a function [i |-> [j |-> value]] with row   *)
(* index i along y and column index j along x, both from 0.                *)

None == <<0, -1>>
NaN == <<0, 0>>
Inf == <<1, 0>>

(* np.arange(0, stop, step) for step > 0: ceil(stop / step) points k*step *)
arange(stop, step) ==
    [k \in 0..(Ceil(RDiv(stop, step)) - 1) |-> RMul(I(k), step)]

Len0(f) == Cardinality(DOMAIN f)

(* matrix indexing: X[i][j] = x[i], Y[i][j] = y[j] *)
meshgrid_ij(x, y) ==
    [X |-> [i \in DOMAIN x |-> [j \in DOMAIN y |-> x[i]]],
     Y |-> [i \in DOMAIN x |-> [j \in DOMAIN y |-> y[j]]]]

(* np.meshgrid(x, y): X[i][j] = x[j], Y[i][j] = y[i] *)
meshgrid(x, y) ==
    [X |-> [i \in DOMAIN y |-> [j \in DOMAIN x |-> x[j]]],
     Y |-> [i \in DOMAIN y |-> [j \in DOMAIN x |-> y[i]]]]

(* the lattice without the added step: np.arange(0, width, step) *)
lattice_Short(battery_width, battery_height, grid_resolution) ==
    meshgrid(arange(battery_width, grid_resolution),
             arange(battery_height, grid_resolution))

lattice(battery_width, battery_height, grid_resolution) ==
    meshgrid(arange(RAdd(battery_width, grid_resolution), grid_resolution),
             arange(RAdd(battery_height, grid_resolution), grid_resolution))

(* the crossing test with x <= in place of x < *)
EdgeCrosses_Closed(x, y, pi, pj) ==
    /\ RLt(y, pi[2]) # RLt(y, pj[2])
    /\ RLe(x, RAdd(RDiv(RMul(RSub(pj[1], pi[1]), RSub(y, pi[2])),
                        RSub(pj[2], pi[2])), pi[1]))

(* the edge test of point_in_polygon: edge from vertex pj to vertex pi *)
EdgeCrosses(x, y, pi, pj) ==
    /\ RLt(y, pi[2]) # RLt(y, pj[2])
    /\ RLt(x, RAdd(RDiv(RMul(RSub(pj[1], pi[1]), RSub(y, pi[2])),
                        RSub(pj[2], pi[2])), pi[1]))

Toggle(inside, crosses) == IF crosses THEN ~inside ELSE inside

RECURSIVE EdgeLoop(_, _, _, _)
EdgeLoop(x, y, polygon, i) ==
    IF i = 0 THEN FALSE
    ELSE Toggle(EdgeLoop(x, y, polygon, i - 1),
                EdgeCrosses(x, y, polygon[i],
                            polygon[IF i = 1 THEN Len(polygon) ELSE i - 1]))

(* j = 0 at first in place of j = n - 1: the closing edge is left out *)
VertexBefore_Open(polygon, i) == polygon[IF i = 1 THEN 1 ELSE i - 1]

(* the vertex before vertex i: j = n - 1 at first, then j = i *)
VertexBefore(polygon, i) == polygon[IF i = 1 THEN Len(polygon) ELSE i - 1]

(* the divisions evaluated without regard to the crossing test *)
Divisors_Eager(x, y, polygon) ==
    {RSub(VertexBefore(polygon, i)[2], polygon[i][2]) : i \in DOMAIN polygon}

(* the denominators yj - yi of the divisions point_in_polygon evaluates: *)
(* `and` evaluates its right operand only when the left one is true     *)
Divisors(x, y, polygon) ==
    {RSub(VertexBefore(polygon, i)[2], polygon[i][2]) :
        i \in {k \in DOMAIN polygon :
                  RLt(y, polygon[k][2]) # RLt(y, VertexBefore(polygon, k)[2])}}

(* point_in_polygon(x, y, polygon): polygon is a sequence of <<x, y>> *)
point_in_polygon(x, y, polygon) == EdgeLoop(x, y, polygon, Len(polygon))

(* the coverage count as a flag: a covered cell is set to 1 *)
CountPolygon_Flag(coverage_count, L, polygon) ==
    [i \in DOMAIN coverage_count |-> [j \in DOMAIN coverage_count[i] |->
        IF point_in_polygon(L.X[i][j], L.Y[i][j], polygon)
        THEN 1
        ELSE coverage_count[i][j]]]

CountPolygon(coverage_count, L, polygon) ==
    [i \in DOMAIN coverage_count |-> [j \in DOMAIN coverage_count[i] |->
        IF point_in_polygon(L.X[i][j], L.Y[i][j], polygon)
        THEN coverage_count[i][j] + 1
        ELSE coverage_count[i][j]]]

(* the body of the camera loop of calculate_coverage_map *)
CountCamera(coverage_count, L, camera) ==
    CountPolygon(coverage_count, L, get_coverage_polygon(camera))

RECURSIVE CoverageLoop(_, _, _)
CoverageLoop(L, cams, n) ==
    IF n = 0 THEN [i \in DOMAIN L.X |-> [j \in DOMAIN L.X[i] |-> 0]]
    ELSE CountCamera(CoverageLoop(L, cams, n - 1), L, cams[n])

CoverageOn(L, cams) == [X |-> L.X, Y |-> L.Y, grid |-> CoverageLoop(L, cams, Len(cams))]

(* calculate_coverage_map: [X, Y, coverage_count] *)
calculate_coverage_map(cams, battery_width, battery_height, grid_resolution) ==
    CoverageOn(lattice(battery_width, battery_height, grid_resolution), cams)

Dist(p, q) == Hypot(RSub(q[1], p[1]), RSub(q[2], p[2]))

PixelResolutionOf(p1, p2, p3) ==
    IF \E v \in {p1[1], p1[2], p2[1], p2[2], p3[1], p3[2]} : v = None
    THEN <<Inf, Inf>>
    ELSE <<Dist(p1, p2), Dist(p1, p3)>>

(* Camera.calculate_pixel_resolution: <<res_x, res_y>> *)
calculate_pixel_resolution(cam, px, py) ==
    PixelResolutionOf(pixel_to_world(cam, px, py),
                      pixel_to_world(cam, RAdd(px, I(1)), py),
                      pixel_to_world(cam, px, RAdd(py, I(1))))

PositionOr(p) == IF p[1] # None THEN p ELSE <<NaN, NaN>>

(* Camera.get_all_pixel_positions: positions[px][py] = <<x, y>> *)
get_all_pixel_positions(cam) ==
    [px \in 0..(cam.spec.resolution_x - 1) |->
        [py \in 0..(cam.spec.resolution_y - 1) |->
            PositionOr(pixel_to_world(cam, I(px), I(py)))]]

(* the cell keeps the resolution written last *)
WriteCell_Last(best_resolution, gi, gj, avg_res) ==
    IF /\ 0 <= gi /\ gi < Len0(best_resolution)
       /\ 0 <= gj /\ gj < Len0(best_resolution[0])
    THEN [best_resolution EXCEPT ![gi][gj] = avg_res]
    ELSE best_resolution

(* no lower bound on the indices: a negative index counts from the far edge *)
WriteCell_Wraps(best_resolution, gi, gj, avg_res) ==
    IF /\ -Len0(best_resolution) <= gi /\ gi < Len0(best_resolution)
       /\ -Len0(best_resolution[0]) <= gj /\ gj < Len0(best_resolution[0])
    THEN [best_resolution EXCEPT
            ![gi % Len0(best_resolution)][gj % Len0(best_resolution[0])] =
                RMin(best_resolution[gi % Len0(best_resolution)]
                                    [gj % Len0(best_resolution[0])], avg_res)]
    ELSE best_resolution

(* the cell keeps the resolution written first *)
WriteCell_First(best_resolution, gi, gj, avg_res) ==
    IF /\ 0 <= gi /\ gi < Len0(best_resolution)
       /\ 0 <= gj /\ gj < Len0(best_resolution[0])
       /\ best_resolution[gi][gj] = <<1, 0>>
    THEN [best_resolution EXCEPT ![gi][gj] = avg_res]
    ELSE best_resolution

(* best_resolution[gi, gj] = min(best_resolution[gi, gj], avg_res), in range *)
WriteCell(best_resolution, gi, gj, avg_res) ==
    IF /\ 0 <= gi /\ gi < Len0(best_resolution)
       /\ 0 <= gj /\ gj < Len0(best_resolution[0])
    THEN [best_resolution EXCEPT ![gi][gj] = RMin(best_resolution[gi][gj], avg_res)]
    ELSE best_resolution

AvgRes(res) == RDiv(RAdd(res[1], res[2]), I(2))

(* the sample placed at the position of the neighbour (px + 1, py) *)
WriteSample_Neighbour(best_resolution, camera, positions, px, py, grid_resolution) ==
    IF positions[px][py][1] = <<0, 0>> THEN best_resolution
    ELSE WriteCell(best_resolution,
                   Round(RDiv(positions[px + 1][py][2], grid_resolution)),
                   Round(RDiv(positions[px + 1][py][1], grid_resolution)),
                   AvgRes(calculate_pixel_resolution(camera, I(px), I(py))))

(* the body of the pixel loop of calculate_resolution_map for pixel (px, py) *)
WriteSample(best_resolution, camera, positions, px, py, grid_resolution) ==
    IF positions[px][py][1] = NaN THEN best_resolution
    ELSE WriteCell(best_resolution,
                   Round(RDiv(positions[px][py][2], grid_resolution)),
                   Round(RDiv(positions[px][py][1], grid_resolution)),
                   AvgRes(calculate_pixel_resolution(camera, I(px), I(py))))

(* the pixel loop: pixel number n - 1 in the order px outer, py inner *)
RECURSIVE PixelLoop(_, _, _, _, _)
PixelLoop(best_resolution, camera, positions, n, grid_resolution) ==
    IF n = 0 THEN best_resolution
    ELSE WriteSample(
            PixelLoop(best_resolution, camera, positions, n - 1, grid_resolution),
            camera, positions,
            (n - 1) \div (camera.spec.resolution_y - 1),
            (n - 1) % (camera.spec.resolution_y - 1),
            grid_resolution)

RECURSIVE ResolutionLoop(_, _, _, _)
ResolutionLoop(L, cams, n, grid_resolution) ==
    IF n = 0 THEN [i \in DOMAIN L.X |-> [j \in DOMAIN L.X[i] |-> Inf]]
    ELSE PixelLoop(ResolutionLoop(L, cams, n - 1, grid_resolution), cams[n],
                   get_all_pixel_positions(cams[n]),
                   (cams[n].spec.resolution_x - 1) * (cams[n].spec.resolution_y - 1),
                   grid_resolution)

(* best_resolution[np.isinf(best_resolution)] = np.nan *)
InfToNaN(grid) ==
    [i \in DOMAIN grid |-> [j \in DOMAIN grid[i] |->
        IF grid[i][j] = Inf THEN NaN ELSE grid[i][j]]]

ResolutionOn(L, cams, grid_resolution) ==
    [X |-> L.X, Y |-> L.Y,
     grid |-> InfToNaN(ResolutionLoop(L, cams, Len(cams), grid_resolution))]

(* calculate_resolution_map: [X, Y, best_resolution] *)
calculate_resolution_map(cams, battery_width, battery_height, grid_resolution) ==
    ResolutionOn(lattice(battery_width, battery_height, grid_resolution),
                 cams, grid_resolution)

PyramidOf(cam, corners_2d, c) ==
    [camera_pos |-> <<cam.x, cam.y, cam.z>>,
     corners_3d |-> [k \in 1..4 |-> <<corners_2d[k][1], corners_2d[k][2], I(0)>>],
     center_3d |-> <<c[1], c[2], I(0)>>]

(* the centre taken as the point below the camera *)
get_fov_pyramid_vertices_Below(cam) ==
    PyramidOf(cam, get_coverage_polygon(cam), <<cam.x, cam.y>>)

(* Camera.get_fov_pyramid_vertices *)
get_fov_pyramid_vertices(cam) ==
    PyramidOf(cam, get_coverage_polygon(cam),
              pixel_to_world(cam, CenterPixel(cam.spec)[1], CenterPixel(cam.spec)[2]))

----------------------------------------------------------------------------
(* Inputs.  Field-of-view angles with rational half-angle tangents:        *)
(* <<-185, 672>> is 105.4 degrees (tan of the half angle 21/16) and        *)
(* <<7, 24>> is 73.7 degrees (tan of the half angle 3/4).                  *)

MaxCams == 2

SpecA == CameraSpec(3, 2, <<-185, 672>>, <<7, 24>>)
SpecB == CameraSpec(2, 2, <<-185, 672>>, <<7, 24>>)
SpecC == CameraSpec(2, 3, <<7, 24>>, <<-185, 672>>)

Planes == {<<384, 512>>, <<383, 512>>}
GridSteps == {128, 160}

PosePositions == {<<0, 0>>, <<384, 512>>, <<192, 256>>, <<191, 256>>, <<192, 76>>}
PoseTilts == {Zero, <<4, 3>>, <<3, 4>>}
PoseDirections == {Zero, <<0, 1>>, <<3, 4>>, <<-1, 0>>, <<-3, -4>>, <<4, -3>>}
PoseSpecs == {SpecA, SpecB}

PoseInputs ==
    {Camera(1, I(p[1]), I(p[2]), I(240), t, d, s) :
        p \in PosePositions, t \in PoseTilts, d \in PoseDirections, s \in PoseSpecs}

(* the cameras the grid specifications place, each with its own id *)
GridPoses ==
    {Camera(1, I(192), I(256), I(240), Zero, Zero, SpecA),
     Camera(2, I(0), I(0), I(240), Zero, <<3, 4>>, SpecA),
     Camera(3, I(384), I(512), I(240), <<4, 3>>, <<3, 4>>, SpecB),
     Camera(4, I(507), I(256), I(240), Zero, Zero, SpecB),
     Camera(5, I(192), I(76), I(240), <<4, 3>>, <<0, -1>>, SpecC)}

ListsOf(S, n) == UNION {[1..m -> S] : m \in 0..n}

PixelInputs(spec) ==
    {<<I(px), I(py)>> : px \in 0..(spec.resolution_x - 1),
                        py \in 0..(spec.resolution_y - 1)}
        \cup {CenterPixel(spec)}

NoResult == [op |-> "none", args |-> <<>>, cams |-> <<>>, out |-> <<>>]

EngineOps ==
    {"calculate_footprint", "pixel_to_world", "calculate_pixel_resolution",
     "get_coverage_polygon", "get_fov_pyramid_vertices", "get_all_pixel_positions",
     "calculate_coverage_map", "calculate_resolution_map", "auto_tilt_to_center",
     "point_in_polygon"}

(* the camera with a tilt pair stored in it *)
Aimed(cam, pair) == [cam EXCEPT !.tilt_angle = pair[1], !.tilt_direction = pair[2]]

----------------------------------------------------------------------------
(* Calls of the engine.  result records the call made last: its name, its  *)
(* arguments, the camera list it was given and what it returned.           *)

Returned(op, args, out) ==
    /\ result' = [op |-> op, args |-> args, cams |-> cameras, out |-> out]
    /\ UNCHANGED <<cameras, next_camera_id, memo>>

CallPixelToWorld(k, p) ==
    Returned("pixel_to_world", <<k, p>>, pixel_to_world(cameras[k], p[1], p[2]))

CallFootprint(k) ==
    Returned("calculate_footprint", <<k>>, calculate_footprint(cameras[k]))

(* the solver storing the pair in the camera it was given *)
CallAutoTilt_Writes(k, plane) ==
    /\ result' = [op |-> "auto_tilt_to_center", args |-> <<k, plane>>,
                  cams |-> cameras,
                  out |-> auto_tilt_to_center(cameras[k], I(plane[1]), I(plane[2]))]
    /\ cameras' = [cameras EXCEPT ![k] =
                      Aimed(cameras[k],
                            auto_tilt_to_center(cameras[k], I(plane[1]), I(plane[2])))]
    /\ UNCHANGED <<next_camera_id, memo>>

CallAutoTilt(k, plane) ==
    Returned("auto_tilt_to_center", <<k, plane>>,
             auto_tilt_to_center(cameras[k], I(plane[1]), I(plane[2])))

AddCounts(out, earlier) ==
    [out EXCEPT !.grid = [i \in DOMAIN out.grid |-> [j \in DOMAIN out.grid[i] |->
                             out.grid[i][j] + earlier.grid[i][j]]]]

(* the returned array shared between calls: a repeated call counts on top   *)
(* of the output the caller kept                                            *)
CallCoverageMap_Accumulating(plane, step) ==
    Returned("calculate_coverage_map", <<plane, step>>,
             IF /\ memo.op = "calculate_coverage_map"
                /\ memo.args = <<plane, step>>
             THEN AddCounts(calculate_coverage_map(cameras, I(plane[1]), I(plane[2]),
                                                   I(step)), memo.out)
             ELSE calculate_coverage_map(cameras, I(plane[1]), I(plane[2]), I(step)))

CallCoverageMap(plane, step) ==
    Returned("calculate_coverage_map", <<plane, step>>,
             calculate_coverage_map(cameras, I(plane[1]), I(plane[2]), I(step)))

CallResolutionMap(plane, step) ==
    Returned("calculate_resolution_map", <<plane, step>>,
             calculate_resolution_map(cameras, I(plane[1]), I(plane[2]), I(step)))

CallPointInPolygon(x, y, polygon) ==
    Returned("point_in_polygon", <<x, y, polygon>>,
             point_in_polygon(I(x), I(y), polygon))

CallPixelResolution(k, p) ==
    Returned("calculate_pixel_resolution", <<k, p>>,
             calculate_pixel_resolution(cameras[k], p[1], p[2]))

CallCoveragePolygon(k) ==
    Returned("get_coverage_polygon", <<k>>, get_coverage_polygon(cameras[k]))

CallPyramid(k) ==
    Returned("get_fov_pyramid_vertices", <<k>>, get_fov_pyramid_vertices(cameras[k]))

CallAllPixelPositions(k) ==
    Returned("get_all_pixel_positions", <<k>>, get_all_pixel_positions(cameras[k]))

(* the caller takes the value returned last and keeps it *)
Remember ==
    /\ result # NoResult
    /\ memo' = result
    /\ result' = NoResult
    /\ UNCHANGED <<cameras, next_camera_id>>

(* the runs over the pure functions make one call each: a second call     *)
(* would only replace the recorded result                                  *)
FirstCall == result = NoResult

(* single cameras: projections, footprints and auto-aim, one call a run *)
InitPose ==
    /\ cameras \in {<<c>> : c \in PoseInputs}
    /\ next_camera_id = 2
    /\ result = NoResult
    /\ memo = NoResult

NextPose ==
    \/ \E k \in DOMAIN cameras : \E p \in PixelInputs(cameras[k].spec) :
          FirstCall /\ CallPixelToWorld(k, p)
    \/ \E k \in DOMAIN cameras : FirstCall /\ CallFootprint(k)
    \/ \E k \in DOMAIN cameras : \E plane \in Planes :
          FirstCall /\ CallAutoTilt(k, plane)
    \/ \E k \in DOMAIN cameras : FirstCall /\ CallPyramid(k)

SpecPose == InitPose /\ [][NextPose]_vars

(* camera lists: the two grid maps, one call a run *)
InitGrid ==
    /\ cameras \in ListsOf(GridPoses, MaxCams)
    /\ next_camera_id = 7
    /\ result = NoResult
    /\ memo = NoResult

NextGrid ==
    \/ \E plane \in Planes : \E step \in GridSteps :
          FirstCall /\ CallCoverageMap(plane, step)
    \/ \E plane \in Planes : \E step \in GridSteps :
          FirstCall /\ CallResolutionMap(plane, step)

SpecGrid == InitGrid /\ [][NextGrid]_vars

(* points against axis-aligned rectangles <<x0, y0, x1, y1>> *)
Rectangles ==
    {<<0, 0, 10, 10>>, <<0, 0, 10, 5>>, <<-5, 0, 5, 10>>, <<5, 5, 15, 15>>,
     <<0, -5, 15, 10>>}

PipCoords == {-5, 0, 5, 10, 15}

RectPolygon(r) ==
    << <<I(r[1]), I(r[2])>>, <<I(r[3]), I(r[2])>>,
       <<I(r[3]), I(r[4])>>, <<I(r[1]), I(r[4])>> >>

(* polygons with a repeated vertex, with one point only, and a triangle *)
PipPolygons ==
    {<< <<I(0), I(0)>>, <<I(10), I(0)>>, <<I(10), I(0)>>, <<I(5), I(10)>> >>,
     << <<I(5), I(5)>>, <<I(5), I(5)>>, <<I(5), I(5)>> >>,
     << <<I(0), I(0)>>, <<I(10), I(5)>>, <<I(0), I(10)>> >>}

InitPip ==
    /\ cameras = <<>>
    /\ next_camera_id = 1
    /\ result = NoResult
    /\ memo = NoResult

NextPip ==
    \/ \E r \in Rectangles : \E x \in PipCoords : \E y \in PipCoords :
          FirstCall /\ CallPointInPolygon(x, y, RectPolygon(r))
    \/ \E polygon \in PipPolygons : \E x \in PipCoords : \E y \in PipCoords :
          FirstCall /\ CallPointInPolygon(x, y, polygon)

SpecPip == InitPip /\ [][NextPip]_vars

----------------------------------------------------------------------------
(* The camera the last call was about. *)
CalledCamera == result.cams[result.args[1]]

(* tan of an angle strictly between -90 and 90 degrees *)
TanOf(a) == <<a[2], a[1]>>

Acute(a) == a[1] > 0 /\ a[2] > 0

UnitX(d) == RDiv(I(d[1]), Sqrt(I(d[1] * d[1] + d[2] * d[2])))
UnitY(d) == RDiv(I(d[2]), Sqrt(I(d[1] * d[1] + d[2] * d[2])))

(* the point at distance z * tan(tilt) from (x, y) toward the azimuth *)
TowardAzimuth(cam) ==
    <<Fl(RAdd(cam.x, RMul(RMul(cam.z, TanOf(cam.tilt_angle)), UnitX(cam.tilt_direction)))),
      Fl(RAdd(cam.y, RMul(RMul(cam.z, TanOf(cam.tilt_angle)), UnitY(cam.tilt_direction))))>>

(* C1: for 0 < tilt_angle < 90 and z > 0 the pixel-grid centre projects to  *)
(* the point displaced from (x, y) by z * tan(tilt_angle) toward the        *)
(* azimuth tilt_direction (for tilt_direction = 0: world_x > x, world_y = y) *)
C1_CenterTowardAzimuth ==
    (/\ result.op = "pixel_to_world"
     /\ result.args[2] = CenterPixel(CalledCamera.spec)
     /\ Acute(CalledCamera.tilt_angle)
     /\ RLt(I(0), CalledCamera.z))
        => result.out = TowardAzimuth(CalledCamera)

CenterOf(cam) ==
    pixel_to_world(cam, CenterPixel(cam.spec)[1], CenterPixel(cam.spec)[2])

Within1(p, tx, ty) ==
    /\ RLe(RAbs(RSub(p[1], tx)), I(1))
    /\ RLe(RAbs(RSub(p[2], ty)), I(1))

SquaredDistance(cam, tx, ty) ==
    RAdd(RMul(RSub(tx, cam.x), RSub(tx, cam.x)), RMul(RSub(ty, cam.y), RSub(ty, cam.y)))

(* C2: a camera at least 1 mm from the plane centre, given the pair that    *)
(* auto_tilt_to_center returns, projects its pixel-grid centre onto the     *)
(* plane centre (to the millimetre)                                         *)
C2_AimLandsOnTarget ==
    (/\ result.op = "auto_tilt_to_center"
     /\ RLt(I(0), CalledCamera.z)
     /\ RLe(I(1), SquaredDistance(CalledCamera, RDiv(I(result.args[2][1]), I(2)),
                                  RDiv(I(result.args[2][2]), I(2)))))
        => Within1(CenterOf(Aimed(CalledCamera, result.out)),
                   RDiv(I(result.args[2][1]), I(2)), RDiv(I(result.args[2][2]), I(2)))

C1_Witness ==
    /\ result.op = "pixel_to_world"
    /\ result.args[2] = CenterPixel(CalledCamera.spec)
    /\ Acute(CalledCamera.tilt_angle)
    /\ CalledCamera.tilt_direction = Zero
    /\ RLt(result.out[1], CalledCamera.x)
    /\ result.out[2] = CalledCamera.y

C2_Witness ==
    /\ result.op = "auto_tilt_to_center"
    /\ CalledCamera.x = I(0) /\ CalledCamera.y = I(0)
    /\ result.args[2] = <<384, 512>>
    /\ result.out = << <<3, 4>>, <<3, 4>> >>
    /\ CenterOf(Aimed(CalledCamera, result.out)) = <<I(-192), I(-256)>>

----------------------------------------------------------------------------
Polygons(cams) == [k \in DOMAIN cams |-> calculate_footprint(cams[k]).corners]

Containing(x, y, polygons) ==
    {k \in DOMAIN polygons : point_in_polygon(x, y, polygons[k])}

CountsMatch(out, polygons) ==
    \A i \in DOMAIN out.grid : \A j \in DOMAIN out.grid[i] :
        out.grid[i][j] = Cardinality(Containing(out.X[i][j], out.Y[i][j], polygons))

(* C3: the count of calculate_coverage_map at lattice cell (i, j) is the    *)
(* number of list positions whose camera's footprint polygon contains the   *)
(* lattice point (X[i,j], Y[i,j]); a camera listed twice counts twice       *)
C3_CountIsContainingCameras ==
    result.op = "calculate_coverage_map"
        => CountsMatch(result.out, Polygons(result.cams))

C3_Witness ==
    /\ result.op = "calculate_coverage_map"
    /\ Len(result.cams) = 2
    /\ result.cams[1] = result.cams[2]
    /\ \E i \in DOMAIN result.out.grid : \E j \in DOMAIN result.out.grid[i] :
          result.out.grid[i][j] = 2
    /\ \E i \in DOMAIN result.out.grid : \E j \in DOMAIN result.out.grid[i] :
          result.out.grid[i][j] = 0

----------------------------------------------------------------------------
(* one (camera, pixel) sample: the cell its own position rounds to and its  *)
(* averaged resolution                                                      *)
SampleAt(position, avg, step) ==
    [gi |-> Round(RDiv(position[2], step)),
     gj |-> Round(RDiv(position[1], step)),
     avg |-> avg]

SampleOf(cam, px, py, step) ==
    SampleAt(pixel_to_world(cam, I(px), I(py)),
             AvgRes(calculate_pixel_resolution(cam, I(px), I(py))), step)

SamplesOf(cam, step) ==
    {SampleOf(cam, q[1], q[2], step) :
        q \in (0..(cam.spec.resolution_x - 2)) \X (0..(cam.spec.resolution_y - 2))}

Samples(cams, step) == UNION {SamplesOf(cams[k], step) : k \in DOMAIN cams}

SnappedTo(samples, i, j) == {s.avg : s \in {t \in samples : t.gi = i /\ t.gj = j}}

MinOrNaN(v, avgs) ==
    IF avgs = {} THEN v = NaN
    ELSE v \in avgs /\ v # Inf /\ \A a \in avgs : RLe(v, a)

CellsAreMin(grid, samples) ==
    \A i \in DOMAIN grid : \A j \in DOMAIN grid[i] :
        MinOrNaN(grid[i][j], SnappedTo(samples, i, j))

(* C4: in the grid of calculate_resolution_map a cell no sample was snapped *)
(* to is NaN and any other cell holds the minimum of the averaged           *)
(* resolutions of all samples, of all cameras and pixels, snapped to it;    *)
(* no cell holds +infinity                                                  *)
C4_CellIsMinOfSamples ==
    result.op = "calculate_resolution_map"
        => CellsAreMin(result.out.grid, Samples(result.cams, I(result.args[2])))

SeveralSnapped(grid, samples) ==
    \E i \in DOMAIN grid : \E j \in DOMAIN grid[i] :
        Cardinality(SnappedTo(samples, i, j)) >= 2

C4_Witness ==
    /\ result.op = "calculate_resolution_map"
    /\ \E i \in DOMAIN result.out.grid : \E j \in DOMAIN result.out.grid[i] :
          result.out.grid[i][j] = NaN
    /\ SeveralSnapped(result.out.grid, Samples(result.cams, I(result.args[2])))

----------------------------------------------------------------------------
(* the pair for a target at offset (dx, dy) whose squared distance is d2 *)
AimExpected(cam, dx, dy, d2) ==
    IF RLt(d2, I(1)) THEN <<Zero, Zero>>
    ELSE <<Atan2(Sqrt(d2), cam.z), Atan2(dy, dx)>>

AimExpectedAt(cam, dx, dy) ==
    AimExpected(cam, dx, dy, RAdd(RMul(dx, dx), RMul(dy, dy)))

(* C5: auto_tilt_to_center returns (0, 0) when the horizontal distance to   *)
(* the plane centre is strictly below 1 mm, and otherwise, a distance of    *)
(* exactly 1 mm included, atan2(distance, z) and atan2(dy, dx), unclamped   *)
C5_AimPairByDistance ==
    result.op = "auto_tilt_to_center"
        => result.out = AimExpectedAt(CalledCamera,
                            RSub(<<result.args[2][1], 2>>, CalledCamera.x),
                            RSub(<<result.args[2][2], 2>>, CalledCamera.y))

C5_Witness ==
    /\ result.op = "auto_tilt_to_center"
    /\ SquaredDistance(CalledCamera, <<result.args[2][1], 2>>,
                       <<result.args[2][2], 2>>) = I(1)
    /\ result.out = << <<240, 1>>, Zero >>

----------------------------------------------------------------------------
IsRectangle(polygon) ==
    /\ Len(polygon) = 4
    /\ polygon[2] = <<polygon[3][1], polygon[1][2]>>
    /\ polygon[4] = <<polygon[1][1], polygon[3][2]>>
    /\ RLt(polygon[1][1], polygon[3][1])
    /\ RLt(polygon[1][2], polygon[3][2])

InHalfOpen(x, y, lo, hi) ==
    /\ RLe(lo[1], x) /\ RLt(x, hi[1])
    /\ RLe(lo[2], y) /\ RLt(y, hi[2])

(* C6: for the rectangle [(x0,y0), (x1,y0), (x1,y1), (x0,y1)] with x0 < x1  *)
(* and y0 < y1, point_in_polygon is true exactly for the points with        *)
(* x0 <= x < x1 and y0 <= y < y1                                            *)
C6_RectangleHalfOpen ==
    (result.op = "point_in_polygon" /\ IsRectangle(result.args[3]))
        => (result.out <=> InHalfOpen(I(result.args[1]), I(result.args[2]),
                                      result.args[3][1], result.args[3][3]))

C6_Witness ==
    /\ result.op = "point_in_polygon"
    /\ result.args = <<10, 5, RectPolygon(<<0, 0, 10, 10>>)>>
    /\ result.out = FALSE

----------------------------------------------------------------------------
CeilDiv(a, b) == (a + b - 1) \div b

(* C7: with an empty camera list calculate_coverage_map returns counts that *)
(* are all 0, on a lattice of ceil(width/step)+1 points along the width and *)
(* ceil(height/step)+1 points along the height                              *)
C7_EmptyListAllZero ==
    (result.op = "calculate_coverage_map" /\ result.cams = <<>>)
        => /\ \A i \in DOMAIN result.out.grid : \A j \in DOMAIN result.out.grid[i] :
                 result.out.grid[i][j] = 0
           /\ Len0(result.out.grid) = CeilDiv(result.args[1][2], result.args[2]) + 1
           /\ \A i \in DOMAIN result.out.grid :
                 Len0(result.out.grid[i]) = CeilDiv(result.args[1][1], result.args[2]) + 1

C7_Witness ==
    /\ result.op = "calculate_coverage_map"
    /\ result.cams = <<>>
    /\ result.args = <<<<383, 512>>, 160>>
    /\ Len0(result.out.grid) = 5
    /\ Len0(result.out.grid[0]) = 4

----------------------------------------------------------------------------
Plus(p, len, ux, uy) == <<RAdd(p[1], RMul(len, ux)), RAdd(p[2], RMul(len, uy))>>

Midpoint(p, q) == <<RDiv(RAdd(p[1], q[1]), I(2)), RDiv(RAdd(p[2], q[2]), I(2))>>

(* corners 1..4 are a width x height rectangle centred on c whose first    *)
(* edge points along the unit vector (ux, uy)                              *)
RotatedRectangle(corners, c, width, height, ux, uy) ==
    /\ corners[2] = Plus(corners[1], width, ux, uy)
    /\ corners[3] = Plus(corners[2], height, RNeg(uy), ux)
    /\ corners[4] = Plus(corners[1], height, RNeg(uy), ux)
    /\ Midpoint(corners[1], corners[3]) = c

(* C8: with tilt_angle = 0 calculate_footprint returns center (x, y), width *)
(* 2*z*tan(fov_h/2) and height 2*z*tan(fov_v/2) for every tilt_direction,   *)
(* and corners that are that rectangle rotated about (x, y) by              *)
(* tilt_direction                                                           *)
C8_NadirFootprint ==
    (result.op = "calculate_footprint" /\ CalledCamera.tilt_angle = Zero)
        => /\ result.out.center = <<CalledCamera.x, CalledCamera.y>>
           /\ result.out.width =
                 RMul(I(2), RMul(CalledCamera.z, TanHalf(CalledCamera.spec.fov_h)))
           /\ result.out.height =
                 RMul(I(2), RMul(CalledCamera.z, TanHalf(CalledCamera.spec.fov_v)))
           /\ RotatedRectangle(result.out.corners, result.out.center,
                               result.out.width, result.out.height,
                               UnitX(CalledCamera.tilt_direction),
                               UnitY(CalledCamera.tilt_direction))

C8_Witness ==
    /\ result.op = "calculate_footprint"
    /\ CalledCamera.tilt_angle = Zero
    /\ CalledCamera.tilt_direction = <<3, 4>>
    /\ CalledCamera.x = I(192) /\ CalledCamera.y = I(256)
    /\ result.out.width = I(630)
    /\ result.out.height = I(360)
    /\ result.out.corners[1] = <<I(147), I(-104)>>

----------------------------------------------------------------------------
(* A session of a caller with the engine: any calls in any order on one    *)
(* camera list, the caller keeping a returned value now and then.          *)
SessionNadir == Camera(1, I(192), I(76), I(240), Zero, <<3, 4>>, SpecB)
SessionTilted == Camera(2, I(0), I(0), I(240), <<3, 4>>, <<3, 4>>, SpecB)

SessionLists == {<<>>, <<SessionNadir>>, <<SessionTilted, SessionNadir>>}

(* the plane <<width, height>> and the grid step of the session's map calls *)
SessionGrid == <<<<384, 512>>, 128>>

Init ==
    /\ cameras \in SessionLists
    /\ next_camera_id = Len(cameras) + 1
    /\ result = NoResult
    /\ memo = NoResult

Next ==
    \/ \E k \in DOMAIN cameras : CallPixelToWorld(k, CenterPixel(cameras[k].spec))
    \/ \E k \in DOMAIN cameras : CallPixelResolution(k, <<I(0), I(0)>>)
    \/ \E k \in DOMAIN cameras : CallFootprint(k)
    \/ \E k \in DOMAIN cameras : CallCoveragePolygon(k)
    \/ \E k \in DOMAIN cameras : CallPyramid(k)
    \/ \E k \in DOMAIN cameras : CallAllPixelPositions(k)
    \/ \E k \in DOMAIN cameras : CallAutoTilt(k, SessionGrid[1])
    \/ CallCoverageMap(SessionGrid[1], SessionGrid[2])
    \/ CallResolutionMap(SessionGrid[1], SessionGrid[2])
    \/ Remember

Spec == Init /\ [][Next]_vars

EntryPoints ==
    {"calculate_footprint", "get_fov_pyramid_vertices", "calculate_coverage_map",
     "calculate_resolution_map", "auto_tilt_to_center"}

SameInputs(a, b) == a.op = b.op /\ a.args = b.args /\ a.cams = b.cams

C10_CallsLeaveCamerasAlone ==
    [][result'.op \in EngineOps => cameras' = cameras]_vars

C10_Witness ==
    /\ result.op = "auto_tilt_to_center"
    /\ result.out = << <<4, 3>>, <<0, 1>> >>
    /\ cameras = result.cams
    /\ CalledCamera.tilt_angle = Zero
    /\ CalledCamera.tilt_direction = <<3, 4>>

----------------------------------------------------------------------------
(* the pixel and the rotated ray of the pixel_to_world call made last *)
CalledRay == ray_tilted(CalledCamera, result.args[2][1], result.args[2][2])

Along(cam, t, ray) ==
    <<Fl(RAdd(cam.x, RMul(t, ray[1]))), Fl(RAdd(cam.y, RMul(t, ray[2])))>>

Descends(ray) == RLt(ray[3], <<-1, 1000>>)

ProjectedAlong(cam, ray) ==
    IF Descends(ray) THEN Along(cam, RDiv(RNeg(cam.z), ray[3]), ray)
    ELSE Along(cam, I(10000), ray)

----------------------------------------------------------------------------
(* Construction.  The dataclasses CameraSpec and Camera take any field     *)
(* values: __post_init__ only fills in a missing spec.                      *)
BuildResolutions == {1, 2, 3}
BuildFovs == {<<-185, 672>>, <<7, 24>>, <<1, 0>>, <<-1, 0>>}
BuildHeights == {240, 0, -240}
BuildTilts == {Zero, <<4, 3>>}

Construct(rx, ry, fh, fv, z, tilt) ==
    /\ cameras = <<>>
    /\ cameras' = <<Camera(1, I(0), I(0), I(z), tilt, Zero, CameraSpec(rx, ry, fh, fv))>>
    /\ UNCHANGED <<next_camera_id, result, memo>>

ZeroDivisionError == [raised |-> "ZeroDivisionError"]

(* x / (resolution - 1) in pixel_to_world raises when resolution is 1 *)
DividesByZero(cam) ==
    cam.spec.resolution_x - 1 = 0 \/ cam.spec.resolution_y - 1 = 0

(* calculate_footprint with its exception: the tilted branch projects pixels *)
FootprintOutcome(cam) ==
    IF cam.tilt_angle # Zero /\ DividesByZero(cam) THEN ZeroDivisionError
    ELSE calculate_footprint(cam)

(* the fields of view whose tangent the model evaluates: below 180 degrees *)
Evaluable(fov) == fov[2] > 0 \/ fov = Zero

CallFootprintBuilt(k) ==
    /\ Evaluable(cameras[k].spec.fov_h) /\ Evaluable(cameras[k].spec.fov_v)
    /\ Returned("calculate_footprint", <<k>>, FootprintOutcome(cameras[k]))

InitBuild ==
    /\ cameras = <<>>
    /\ next_camera_id = 1
    /\ result = NoResult
    /\ memo = NoResult

NextBuild ==
    \/ \E rx \in BuildResolutions : \E ry \in BuildResolutions :
       \E fh \in BuildFovs : \E z \in BuildHeights : \E tilt \in BuildTilts :
          Construct(rx, ry, fh, <<7, 24>>, z, tilt)
    \/ \E k \in DOMAIN cameras : FirstCall /\ CallFootprintBuilt(k)

SpecBuild == InitBuild /\ [][NextBuild]_vars

(* strictly between 0 and 180 degrees *)
ValidFov(fov) == fov[2] > 0

ValidParameters(cam) ==
    /\ cam.spec.resolution_x >= 2 /\ cam.spec.resolution_y >= 2
    /\ ValidFov(cam.spec.fov_h) /\ ValidFov(cam.spec.fov_v)
    /\ RLt(I(0), cam.z)

(* C12: a CameraSpec with resolution_x < 2, resolution_y < 2 or a field of  *)
(* view outside (0, 180), or a Camera with z <= 0, is rejected when it is   *)
(* constructed, so that no later call raises because of such a parameter    *)
C12_InvalidRejected ==
    /\ \A k \in DOMAIN cameras : ValidParameters(cameras[k])
    /\ result.op = "calculate_footprint" => result.out # ZeroDivisionError

C12_Witness ==
    /\ result.op = "calculate_footprint"
    /\ CalledCamera.spec.resolution_x = 1
    /\ result.out = ZeroDivisionError

----------------------------------------------------------------------------
(* camera lists whose footprints and samples share cells *)
MergePoses ==
    {Camera(1, I(192), I(256), I(240), Zero, Zero, SpecA),
     Camera(3, I(384), I(512), I(240), <<4, 3>>, <<3, 4>>, SpecB),
     Camera(4, I(507), I(256), I(240), Zero, Zero, SpecB)}

InitMerge ==
    /\ cameras \in ListsOf(MergePoses, MaxCams)
    /\ next_camera_id = 7
    /\ result = NoResult
    /\ memo = NoResult

NextMerge ==
    \/ \E plane \in Planes : \E step \in GridSteps :
          FirstCall /\ CallCoverageMap(plane, step)
    \/ \E plane \in Planes : \E step \in GridSteps :
          FirstCall /\ CallResolutionMap(plane, step)

SpecMerge == InitMerge /\ [][NextMerge]_vars

Head_(cams, m) == SubSeq(cams, 1, m)
Tail_(cams, m) == SubSeq(cams, m + 1, Len(cams))

(* the list with positions i and i + 1 exchanged *)
Swapped(cams, i) == [cams EXCEPT ![i] = cams[i + 1], ![i + 1] = cams[i]]

MapOf(op, cams, plane, step) ==
    IF op = "calculate_coverage_map"
    THEN calculate_coverage_map(cams, I(plane[1]), I(plane[2]), I(step)).grid
    ELSE calculate_resolution_map(cams, I(plane[1]), I(plane[2]), I(step)).grid

MinNaN(a, b) == IF a = NaN THEN b ELSE IF b = NaN THEN a ELSE RMin(a, b)

MergeCell(op, a, b) == IF op = "calculate_coverage_map" THEN a + b ELSE MinNaN(a, b)

Merged(op, ga, gb) ==
    [i \in DOMAIN ga |-> [j \in DOMAIN ga[i] |-> MergeCell(op, ga[i][j], gb[i][j])]]

MergesAt(op, cams, plane, step, grid, m) ==
    grid = Merged(op, MapOf(op, Head_(cams, m), plane, step),
                      MapOf(op, Tail_(cams, m), plane, step))

(* C13: the map of A ++ B is the elementwise sum (coverage) or the          *)
(* elementwise minimum with NaN as "no sample" (resolution) of the maps of  *)
(* A and of B, and exchanging two neighbours of the list, hence any         *)
(* permutation, leaves the map unchanged                                    *)
C13_MapsMerge ==
    result.op \in {"calculate_coverage_map", "calculate_resolution_map"}
        => /\ \A m \in 0..Len(result.cams) :
                 MergesAt(result.op, result.cams, result.args[1], result.args[2],
                          result.out.grid, m)
           /\ \A i \in 1..(Len(result.cams) - 1) :
                 result.out.grid = MapOf(result.op, Swapped(result.cams, i),
                                         result.args[1], result.args[2])

BothSampled(ga, gb) ==
    \E i \in DOMAIN ga : \E j \in DOMAIN ga[i] :
        ga[i][j] # NaN /\ gb[i][j] # NaN /\ RLt(gb[i][j], ga[i][j])

C13_Witness ==
    /\ result.op = "calculate_resolution_map"
    /\ Len(result.cams) = 2
    /\ BothSampled(MapOf(result.op, Head_(result.cams, 1), result.args[1], result.args[2]),
                   MapOf(result.op, Tail_(result.cams, 1), result.args[1], result.args[2]))

----------------------------------------------------------------------------
(* The pixel-to-angle mapping on its own, for every resolution from 2 up.  *)
MaxRes == 32

(* fields of view in degrees: the defaults 110 and 75, and 105.4 *)
AngleFovs == {I(110), I(75), <<527, 5>>}

AnglePixels(n) == {I(k) : k \in 0..(n - 1)} \cup {RDiv(I(n - 1), I(2))}

CallPixelAngle(p, n, fov) ==
    Returned("pixel_angle", <<p, n, fov>>, pixel_angle(p, n, fov))

InitAngle ==
    /\ cameras = <<>>
    /\ next_camera_id = 1
    /\ result = NoResult
    /\ memo = NoResult

NextAngle ==
    \E n \in 2..MaxRes : \E p \in AnglePixels(n) : \E fov \in AngleFovs :
        FirstCall /\ CallPixelAngle(p, n, fov)

SpecAngle == InitAngle /\ [][NextAngle]_vars

(* the angle as the line through (0, -fov/2) with slope fov / (n - 1) *)
OnLine(angle, p, n, fov) ==
    angle = RAdd(RNeg(RDiv(fov, I(2))), RMul(p, RDiv(fov, I(n - 1))))

(* C14: the angle of a pixel is linear in the pixel index, is -fov/2 at     *)
(* index 0, +fov/2 at index n-1 and 0 at the centre (n-1)/2, for every      *)
(* n >= 2, and angle(n-1-p) = -angle(p)                                     *)
C14_AngleLinearAntisymmetric ==
    result.op = "pixel_angle"
        => /\ OnLine(result.out, result.args[1], result.args[2], result.args[3])
           /\ result.args[1] = I(0) => result.out = RNeg(RDiv(result.args[3], I(2)))
           /\ result.args[1] = I(result.args[2] - 1)
                 => result.out = RDiv(result.args[3], I(2))
           /\ result.args[1] = RDiv(I(result.args[2] - 1), I(2)) => result.out = I(0)
           /\ pixel_angle(RSub(I(result.args[2] - 1), result.args[1]),
                          result.args[2], result.args[3]) = RNeg(result.out)

C14_Witness ==
    /\ result.op = "pixel_angle"
    /\ result.args = <<I(31), 32, I(110)>>
    /\ result.out = I(55)

----------------------------------------------------------------------------
ExtremePixels(spec) ==
    << <<I(0), I(0)>>,
       <<I(spec.resolution_x - 1), I(0)>>,
       <<I(spec.resolution_x - 1), I(spec.resolution_y - 1)>>,
       <<I(0), I(spec.resolution_y - 1)>> >>

(* e is the greatest minus the least of the values vs *)
IsExtent(e, vs) ==
    \E hi \in vs : \E lo \in vs :
        /\ \A v \in vs : RLe(lo, v) /\ RLe(v, hi)
        /\ e = RSub(hi, lo)

(* C15: for tilt_angle > 0 the corners of calculate_footprint are the       *)
(* projections of the pixels (0,0), (rx-1,0), (rx-1,ry-1), (0,ry-1) in that *)
(* order, the center is the projection of ((rx-1)/2, (ry-1)/2), and width   *)
(* and height are max - min of the corner x and y, never negative           *)
C15_TiltedFootprint ==
    (result.op = "calculate_footprint" /\ Acute(CalledCamera.tilt_angle))
        => /\ \A k \in 1..4 :
                 result.out.corners[k] =
                    pixel_to_world(CalledCamera, ExtremePixels(CalledCamera.spec)[k][1],
                                   ExtremePixels(CalledCamera.spec)[k][2])
           /\ result.out.center = CenterOf(CalledCamera)
           /\ IsExtent(result.out.width, {result.out.corners[k][1] : k \in 1..4})
           /\ IsExtent(result.out.height, {result.out.corners[k][2] : k \in 1..4})
           /\ RLe(I(0), result.out.width) /\ RLe(I(0), result.out.height)

C15_Witness ==
    /\ result.op = "calculate_footprint"
    /\ CalledCamera.tilt_angle = <<4, 3>>
    /\ CalledCamera.tilt_direction = <<3, 4>>
    /\ result.out.corners[1] # result.out.corners[3]
    /\ RLt(I(0), result.out.width) /\ RLt(I(0), result.out.height)
    /\ result.out.center # <<CalledCamera.x, CalledCamera.y>>

----------------------------------------------------------------------------
OnPlane(p) == <<p[1], p[2], I(0)>>

LiftsFootprint(cam, pyramid, footprint) ==
    /\ pyramid.camera_pos = <<cam.x, cam.y, cam.z>>
    /\ DOMAIN pyramid.corners_3d = 1..4
    /\ \A k \in 1..4 : pyramid.corners_3d[k] = OnPlane(footprint.corners[k])
    /\ pyramid.center_3d = OnPlane(footprint.center)

(* C16: get_fov_pyramid_vertices returns camera_pos = (x, y, z), corners_3d *)
(* the four calculate_footprint corners in their order with z = 0, and      *)
(* center_3d the calculate_footprint center with z = 0, for tilt_angle = 0  *)
(* and for tilt_angle > 0                                                   *)
C16_PyramidLiftsFootprint ==
    result.op = "get_fov_pyramid_vertices"
        => LiftsFootprint(CalledCamera, result.out, calculate_footprint(CalledCamera))

C16_Witness ==
    /\ result.op = "get_fov_pyramid_vertices"
    /\ Acute(CalledCamera.tilt_angle)
    /\ result.out.center_3d # <<CalledCamera.x, CalledCamera.y, I(0)>>
    /\ result.out.center_3d[3] = I(0)
    /\ result.out.camera_pos[3] = I(240)

C16_WitnessNadir ==
    /\ result.op = "get_fov_pyramid_vertices"
    /\ CalledCamera.tilt_angle = Zero
    /\ CalledCamera.tilt_direction = <<3, 4>>
    /\ result.out.center_3d = <<CalledCamera.x, CalledCamera.y, I(0)>>

----------------------------------------------------------------------------
Euclid(p, q) ==
    Sqrt(RAdd(RMul(RSub(q[1], p[1]), RSub(q[1], p[1])),
              RMul(RSub(q[2], p[2]), RSub(q[2], p[2]))))

(* a sample from the projections of a pixel, its right and its lower        *)
(* neighbour: the cell of the pixel's own projection, the mean distance     *)
SampleFrom(own, right, lower, step) ==
    [cell |-> <<Round(RDiv(own[2], step)), Round(RDiv(own[1], step))>>,
     value |-> RDiv(RAdd(Euclid(own, right), Euclid(own, lower)), I(2))]

PixelSample(cam, px, py, step) ==
    SampleFrom(pixel_to_world(cam, I(px), I(py)),
               pixel_to_world(cam, I(px + 1), I(py)),
               pixel_to_world(cam, I(px), I(py + 1)), step)

InnerPixels(spec) == (0..(spec.resolution_x - 2)) \X (0..(spec.resolution_y - 2))

PixelSamples(cams, step) ==
    UNION {{PixelSample(cams[k], q[1], q[2], step) : q \in InnerPixels(cams[k].spec)} :
              k \in DOMAIN cams}

CellsOf(grid) == {<<i, j>> : i \in DOMAIN grid, j \in DOMAIN grid[0]}

SamplesExplain(grid, samples) ==
    /\ {c \in CellsOf(grid) : grid[c[1]][c[2]] # NaN}
          = {s.cell : s \in samples} \cap CellsOf(grid)
    /\ \A c \in CellsOf(grid) :
          grid[c[1]][c[2]] # NaN
             => \E s \in samples : s.cell = c /\ s.value = grid[c[1]][c[2]]

(* C17: calculate_resolution_map samples, per camera, exactly the pixels    *)
(* 0 <= px <= rx-2, 0 <= py <= ry-2; a sample's value is the mean of the    *)
(* distances from the projection of (px,py) to those of (px+1,py) and       *)
(* (px,py+1), and its place is the projection of (px,py) itself             *)
C17_SamplesOfInnerPixels ==
    result.op = "calculate_resolution_map"
        => SamplesExplain(result.out.grid,
                          PixelSamples(result.cams, I(result.args[2])))

LastPixels(spec) ==
    {q \in (0..(spec.resolution_x - 1)) \X (0..(spec.resolution_y - 1)) :
        q \notin InnerPixels(spec)}

CellAt(own, step) == <<Round(RDiv(own[2], step)), Round(RDiv(own[1], step))>>

(* a pixel of the last row or column projects into a cell that stays empty *)
LastPixelUnsampled(grid, cam, step) ==
    \E q \in LastPixels(cam.spec) :
        /\ CellAt(pixel_to_world(cam, I(q[1]), I(q[2])), step) \in CellsOf(grid)
        /\ grid[CellAt(pixel_to_world(cam, I(q[1]), I(q[2])), step)[1]]
               [CellAt(pixel_to_world(cam, I(q[1]), I(q[2])), step)[2]] = NaN

C17_Witness ==
    /\ result.op = "calculate_resolution_map"
    /\ Len(result.cams) = 1
    /\ \E c \in CellsOf(result.out.grid) : result.out.grid[c[1]][c[2]] # NaN
    /\ LastPixelUnsampled(result.out.grid, result.cams[1], I(result.args[2]))

----------------------------------------------------------------------------
(* a sample with the world position it was taken at *)
PlacedFrom(own, right, lower) ==
    [at |-> own,
     value |-> RDiv(RAdd(Euclid(own, right), Euclid(own, lower)), I(2))]

PlacedSample(cam, px, py) ==
    PlacedFrom(pixel_to_world(cam, I(px), I(py)),
               pixel_to_world(cam, I(px + 1), I(py)),
               pixel_to_world(cam, I(px), I(py + 1)))

PlacedSamples(cams) ==
    UNION {{PlacedSample(cams[k], q[1], q[2]) : q \in InnerPixels(cams[k].spec)} :
              k \in DOMAIN cams}

(* a and b differ by at most half a step *)
WithinHalf(a, b, step) == RLe(RMul(I(2), RAbs(RSub(a, b))), step)

(* every written cell has a sample within half a step of its lattice point *)
WrittenNearSample(out, samples, step) ==
    \A c \in CellsOf(out.grid) :
        out.grid[c[1]][c[2]] # NaN
           => \E s \in samples :
                 /\ WithinHalf(out.X[c[1]][c[2]], s.at[1], step)
                 /\ WithinHalf(out.Y[c[1]][c[2]], s.at[2], step)
                 /\ c = <<Round(RDiv(s.at[2], step)), Round(RDiv(s.at[1], step))>>

(* C18: a sample at (wx, wy) is written only to the cell of row             *)
(* round(wy/step) and column round(wx/step), whose lattice point is within  *)
(* step/2 of (wx, wy) on each axis; a sample whose row or column index is   *)
(* negative or beyond the grid changes no cell                              *)
C18_WrittenOnlyAtOwnCell ==
    result.op = "calculate_resolution_map"
        => WrittenNearSample(result.out, PlacedSamples(result.cams), I(result.args[2]))

(* a sample of column index -1 in a row of the grid, the far end of which  *)
(* stays empty                                                              *)
LeftOfGrid(grid, samples, step) ==
    \E s \in samples :
        /\ Round(RDiv(s.at[1], step)) = -1
        /\ Round(RDiv(s.at[2], step)) \in DOMAIN grid
        /\ grid[Round(RDiv(s.at[2], step))][Len0(grid[0]) - 1] = NaN

C18_Witness ==
    /\ result.op = "calculate_resolution_map"
    /\ LeftOfGrid(result.out.grid, PlacedSamples(result.cams), I(result.args[2]))
    /\ \E c \in CellsOf(result.out.grid) : result.out.grid[c[1]][c[2]] # NaN

----------------------------------------------------------------------------
(* the points k * step for k = 0 .. ceil(extent / step) *)
PointsUpTo(extent, step) == [k \in 0..CeilDiv(extent, step) |-> I(k * step)]

EndsJustBeyond(points, extent, step) ==
    /\ points[0] = I(0)
    /\ RLe(I(extent), points[Len0(points) - 1])
    /\ RLt(points[Len0(points) - 1], I(extent + step))

LatticeOver(out, xs, ys) ==
    /\ DOMAIN out.X = DOMAIN ys /\ DOMAIN out.Y = DOMAIN ys
    /\ \A i \in DOMAIN ys :
          /\ DOMAIN out.X[i] = DOMAIN xs /\ DOMAIN out.Y[i] = DOMAIN xs
          /\ \A j \in DOMAIN xs : out.X[i][j] = xs[j] /\ out.Y[i][j] = ys[i]

(* C19: for the same width, height and step both maps return the lattice    *)
(* X[i,j] = j * step, Y[i,j] = i * step with j = 0 .. ceil(width/step) and  *)
(* i = 0 .. ceil(height/step): it starts at 0 and its last point is at or   *)
(* beyond the extent and less than a step beyond it                         *)
C19_SharedLattice ==
    result.op \in {"calculate_coverage_map", "calculate_resolution_map"}
        => /\ LatticeOver(result.out, PointsUpTo(result.args[1][1], result.args[2]),
                          PointsUpTo(result.args[1][2], result.args[2]))
           /\ EndsJustBeyond(result.out.X[0], result.args[1][1], result.args[2])
           /\ EndsJustBeyond([i \in DOMAIN result.out.Y |-> result.out.Y[i][0]],
                             result.args[1][2], result.args[2])

C19_Witness ==
    /\ result.op = "calculate_resolution_map"
    /\ result.args = <<<<383, 512>>, 160>>
    /\ Len(result.cams) = 1
    /\ result.out.X[2][3] = I(480)
    /\ result.out.Y[4][1] = I(640)

----------------------------------------------------------------------------
(* The application's working set: st.session_state.cameras and             *)
(* st.session_state.next_camera_id under the buttons of the two tabs.      *)

(* the sidebar's battery size, the smallest working distance it takes, and *)
(* a camera spec                                                           *)
AppSettings ==
    [battery_width |-> 1700, battery_height |-> 2800,
     working_distance |-> 50, camera_spec |-> SpecB]

(* adding stops once next_camera_id has passed this number *)
MaxNextId == 3

(* positions typed into the X / Y inputs: a corner and the centre *)
AppPoints == {<<0, 0>>, <<850, 1400>>}

(* tilt inputs: 0 and 45 degrees *)
AppTilts == {Zero, <<1, 1>>}

(* direction inputs of the 3D tab: 0 and 90 degrees *)
AppDirections == {Zero, <<0, 1>>}

(* 85 degrees, the largest tilt an input takes: tan 85 = 11.4301 *)
TiltCap == <<10000, 114301>>

(* only the first MaxEdited cards of the list are edited *)
MaxEdited == 1

(* what is typed into a card: <<x, y>>, tilt and direction, at the limits *)
(* of the inputs (tilt 85, direction 180) and at the centre               *)
CardInputs ==
    {<< <<0, 0>>, TiltCap, <<-1, 0>> >>, << <<850, 1400>>, Zero, <<0, 1>> >>}

AppPresets == {"4corner", "2x3", "3x4", "custom"}

(* Camera(id=next_camera_id, x, y, z=working_distance, tilt_angle, spec=camera_spec) *)
NewCamera(id, x, y, tilt, dir) ==
    Camera(id, x, y, I(AppSettings.working_distance), tilt, dir,
           AppSettings.camera_spec)

(* the camera taking both the tilt and the direction of the solver *)
Directed_Both(cam) ==
    [cam EXCEPT
        !.tilt_angle =
            auto_tilt_to_center(cam, I(AppSettings.battery_width),
                                I(AppSettings.battery_height))[1],
        !.tilt_direction =
            auto_tilt_to_center(cam, I(AppSettings.battery_width),
                                I(AppSettings.battery_height))[2]]

(* _, tilt_dir = auto_tilt_to_center(cam, ...); cam.tilt_direction = tilt_dir *)
Directed(cam) ==
    [cam EXCEPT !.tilt_direction =
        auto_tilt_to_center(cam, I(AppSettings.battery_width),
                            I(AppSettings.battery_height))[2]]

(* cameras.append(cam); next_camera_id += 1 *)
AppendCamera(cam) ==
    /\ cameras' = Append(cameras, cam)
    /\ next_camera_id' = next_camera_id + 1
    /\ UNCHANGED <<result, memo>>

(* sidebar, coordinate input: the add button *)
AddCoordinate(p, tilt, auto_direction) ==
    /\ next_camera_id <= MaxNextId
    /\ IF auto_direction
       THEN AppendCamera(Directed(NewCamera(next_camera_id, I(p[1]), I(p[2]), tilt, Zero)))
       ELSE AppendCamera(NewCamera(next_camera_id, I(p[1]), I(p[2]), tilt, Zero))

(* 2D tab, click input: the add button *)
AddClick(p, tilt) ==
    /\ next_camera_id <= MaxNextId
    /\ AppendCamera(Directed(NewCamera(next_camera_id, I(p[1]), I(p[2]), tilt, Zero)))

(* 3D tab: the add button *)
AddCamera3D(p, tilt, dir) ==
    /\ next_camera_id <= MaxNextId
    /\ AppendCamera(NewCamera(next_camera_id, I(p[1]), I(p[2]), tilt, dir))

(* the four corners, 50 mm inside *)
CornerPositions(w, h) ==
    << <<I(50), I(50)>>, <<I(w - 50), I(50)>>,
       <<I(50), I(h - 50)>>, <<I(w - 50), I(h - 50)>> >>

(* for i in range(n): for j in range(m): (w * (i + 0.5) / n, h * (j + 0.5) / m) *)
GridPositions(n, m, w, h) ==
    [k \in 1..(n * m) |->
        <<Rat(w * (2 * ((k - 1) \div m) + 1), 2 * n),
          Rat(h * (2 * ((k - 1) % m) + 1), 2 * m)>>]

PresetPositions(preset, w, h) ==
    CASE preset = "4corner" -> CornerPositions(w, h)
      [] preset = "2x3" -> GridPositions(2, 3, w, h)
      [] preset = "3x4" -> GridPositions(3, 4, w, h)
      [] OTHER -> <<>>

(* the loop over positions: each camera takes next_camera_id, then += 1 *)
RECURSIVE PlaceAll(_, _, _, _, _)
PlaceAll(cams, next, positions, tilt, k) ==
    IF k > Len(positions) THEN <<cams, next>>
    ELSE PlaceAll(Append(cams, Directed(NewCamera(next, positions[k][1],
                                                  positions[k][2], tilt, Zero))),
                  next + 1, positions, tilt, k + 1)

Placed(placed) ==
    /\ cameras' = placed[1]
    /\ next_camera_id' = placed[2]
    /\ UNCHANGED <<result, memo>>

(* sidebar: apply preset; the list is emptied and the counter set to 1 first *)
ApplyPreset(preset, tilt) ==
    Placed(PlaceAll(<<>>, 1, PresetPositions(preset, AppSettings.battery_width,
                                             AppSettings.battery_height), tilt, 1))

(* the directions 45, 135, -45, -135 degrees of the 3D four-corner preset *)
CornerDirections == << <<1, 1>>, <<-1, 1>>, <<1, -1>>, <<-1, -1>> >>

RECURSIVE PlaceCorners(_, _, _, _)
PlaceCorners(cams, next, positions, k) ==
    IF k > Len(positions) THEN <<cams, next>>
    ELSE PlaceCorners(Append(cams, NewCamera(next, positions[k][1], positions[k][2],
                                             <<1, 1>>, CornerDirections[k])),
                      next + 1, positions, k + 1)

(* 3D tab: the four-corner preset *)
PresetCorners3D ==
    Placed(PlaceCorners(<<>>, 1, CornerPositions(AppSettings.battery_width,
                                                 AppSettings.battery_height), 1))

(* 3D tab: one camera at the centre, id 1, the counter set to 2 *)
PresetCenter3D ==
    Placed(<< <<NewCamera(1, Rat(AppSettings.battery_width, 2),
                           Rat(AppSettings.battery_height, 2), Zero, Zero)>>, 2 >>)

(* a pop() without its index: the last camera goes, whichever was selected *)
Without_Last(cams, idx) == [k \in 1..(Len(cams) - 1) |-> cams[k]]

(* cameras.pop(idx) *)
Without(cams, idx) ==
    [k \in 1..(Len(cams) - 1) |-> IF k < idx THEN cams[k] ELSE cams[k + 1]]

(* a delete that hands the freed number back to the counter *)
DeleteCard_Renumber(idx) ==
    /\ cameras' = Without(cameras, idx)
    /\ next_camera_id' = next_camera_id - 1
    /\ UNCHANGED <<result, memo>>

(* a card's delete button, in either tab: cameras.pop(idx) *)
DeleteCard(idx) ==
    /\ cameras' = Without(cameras, idx)
    /\ UNCHANGED <<next_camera_id, result, memo>>

DeleteCard3D(idx) == DeleteCard(idx)

(* delete all cameras: the list is emptied and the counter set to 1 *)
DeleteAll ==
    /\ cameras' = <<>>
    /\ next_camera_id' = 1
    /\ UNCHANGED <<result, memo>>

ClearAll3D == DeleteAll

(* a camera card: x, y, tilt and direction are taken from its inputs, z and *)
(* spec from the sidebar                                                   *)
EditCard(idx, c) ==
    /\ idx <= MaxEdited
    /\ cameras' = [cameras EXCEPT ![idx] =
                      NewCamera(cameras[idx].id, I(c[1][1]), I(c[1][2]), c[2], c[3])]
    /\ UNCHANGED <<next_camera_id, result, memo>>

EditCard3D(idx, c) == EditCard(idx, c)

InitApp ==
    /\ cameras = <<>>
    /\ next_camera_id = 1
    /\ result = NoResult
    /\ memo = NoResult

NextApp ==
    \/ \E p \in AppPoints : \E tilt \in AppTilts : \E auto \in BOOLEAN :
          AddCoordinate(p, tilt, auto)
    \/ \E preset \in AppPresets : \E tilt \in AppTilts : ApplyPreset(preset, tilt)
    \/ \E p \in AppPoints : \E tilt \in AppTilts : AddClick(p, tilt)
    \/ \E idx \in DOMAIN cameras : DeleteCard(idx)
    \/ DeleteAll
    \/ \E p \in AppPoints : \E tilt \in AppTilts : \E dir \in AppDirections :
          AddCamera3D(p, tilt, dir)
    \/ PresetCorners3D
    \/ PresetCenter3D
    \/ ClearAll3D
    \/ \E idx \in DOMAIN cameras : DeleteCard3D(idx)
    \/ \E idx \in DOMAIN cameras : \E c \in CardInputs : EditCard(idx, c)
    \/ \E idx \in DOMAIN cameras : \E c \in CardInputs : EditCard3D(idx, c)

SpecApp == InitApp /\ [][NextApp]_vars

Ids(cams) == {cams[k].id : k \in DOMAIN cams}

IdsDistinctBelowNext ==
    /\ \A i, j \in DOMAIN cameras : cameras[i].id = cameras[j].id => i = j
    /\ \A i \in DOMAIN cameras : cameras[i].id < next_camera_id

(* no number handed out before goes to another camera: the counter does not *)
(* go back and every id below the old counter was in the list already       *)
KeepsNumbers ==
    /\ next_camera_id' >= next_camera_id
    /\ \A i \in DOMAIN cameras' :
          cameras'[i].id < next_camera_id
              => \E j \in DOMAIN cameras : cameras[j].id = cameras'[i].id

(* a reset: the list holds cameras numbered from 1 and nothing else *)
Renumbered ==
    /\ next_camera_id' = Len(cameras') + 1
    /\ \A i \in DOMAIN cameras' : cameras'[i].id = i

(* C20: after any sequence of additions, presets, deletions and delete-all  *)
(* the cameras of the list have pairwise distinct ids, each smaller than    *)
(* next_camera_id, and a step reuses an id only by a reset of the list      *)
C20_IdsUniqueAndFresh ==
    /\ []IdsDistinctBelowNext
    /\ [][KeepsNumbers \/ Renumbered]_vars

(* camera 1 of three was deleted and the last one added afterwards *)
C20_Witness ==
    /\ Len(cameras) = 2
    /\ cameras[1].id = 2
    /\ cameras[2].id = 3
    /\ cameras[2].tilt_direction = <<0, 1>>
    /\ next_camera_id = 4

----------------------------------------------------------------------------
(* the pixels the resolution map samples: 0..rx-2 by 0..ry-2 *)
InnerPixelInputs(spec) ==
    {<<I(px), I(py)>> : px \in 0..(spec.resolution_x - 2),
                        py \in 0..(spec.resolution_y - 2)}

(* single cameras: the resolution of a sampled pixel, all pixel positions *)
InitSample ==
    /\ cameras \in {<<c>> : c \in PoseInputs}
    /\ next_camera_id = 2
    /\ result = NoResult
    /\ memo = NoResult

NextSample ==
    \/ \E k \in DOMAIN cameras : \E p \in InnerPixelInputs(cameras[k].spec) :
          FirstCall /\ CallPixelResolution(k, p)
    \/ \E k \in DOMAIN cameras : FirstCall /\ CallAllPixelPositions(k)

SpecSample == InitSample /\ [][NextSample]_vars

(* the three projections calculate_pixel_resolution needs for pixel p *)
NeededProjections(cam, p) ==
    {pixel_to_world(cam, p[1], p[2]),
     pixel_to_world(cam, RAdd(p[1], I(1)), p[2]),
     pixel_to_world(cam, p[1], RAdd(p[2], I(1)))}

Available(point) == point[1] # None /\ point[2] # None

----------------------------------------------------------------------------
(* an angle from 0 to 85 degrees *)
WithinCap(a) == a[1] > 0 /\ a[2] >= 0 /\ a[2] * TiltCap[1] <= a[1] * TiltCap[2]

(* an angle from -180 to 180 degrees: any direction of the plane *)
IsDirection(d) == d # <<0, 0>>

(* the pair the solver returns for the camera and the sidebar's battery *)
Solved(cam) ==
    auto_tilt_to_center(cam, I(AppSettings.battery_width), I(AppSettings.battery_height))

(* C22: after any sequence of UI actions every camera of the working set    *)
(* has tilt_angle in [0, 85] and tilt_direction in [-180, 180]; of the      *)
(* solver's pair only the direction reaches a camera                        *)
C22_TiltCapped ==
    \A k \in DOMAIN cameras :
        /\ WithinCap(cameras[k].tilt_angle)
        /\ IsDirection(cameras[k].tilt_direction)

(* an auto-aimed camera at the corner: the solver's tilt is above 85       *)
(* degrees, the camera has its direction and the tilt that was typed       *)
C22_Witness ==
    /\ Len(cameras) >= 1
    /\ cameras[1].x = I(0) /\ cameras[1].y = I(0)
    /\ ~WithinCap(Solved(cameras[1])[1])
    /\ cameras[1].tilt_direction = Solved(cameras[1])[2]
    /\ cameras[1].tilt_angle = <<1, 1>>

----------------------------------------------------------------------------
(* The placement searches optimize_placement.py and optimize_4cam.py: a     *)
(* placement is a camera list, evaluated on the maps of the engine.         *)

MAX_RESOLUTION == 200

MIN_COVERAGE == 70

(* <<BATTERY_WIDTH, BATTERY_HEIGHT>> and the grid step of the evaluation, *)
(* scaled down to a lattice of 3 by 2 points                              *)
SearchGrid == <<<<128, 64>>, 64>>

(* the non-NaN cells of the first n cells of a grid, row by row *)
RECURSIVE ValidRes(_, _)
ValidRes(res_map, n) ==
    IF n = 0 THEN <<>>
    ELSE IF res_map[(n - 1) \div Len0(res_map[0])][(n - 1) % Len0(res_map[0])] = NaN
         THEN ValidRes(res_map, n - 1)
         ELSE Append(ValidRes(res_map, n - 1),
                     res_map[(n - 1) \div Len0(res_map[0])][(n - 1) % Len0(res_map[0])])

Size(grid) == Len0(grid) * Len0(grid[0])

(* np.sum(coverage > 0) *)
CoveredCells(coverage) ==
    Cardinality({c \in (DOMAIN coverage) \X (DOMAIN coverage[0]) :
                    coverage[c[1]][c[2]] > 0})

RECURSIVE SumTo(_, _)
SumTo(values, n) == IF n = 0 THEN I(0) ELSE RAdd(SumTo(values, n - 1), values[n])

RECURSIVE MaxTo(_, _)
MaxTo(values, n) == IF n = 1 THEN values[1] ELSE RMax(MaxTo(values, n - 1), values[n])

RECURSIVE MinTo(_, _)
MinTo(values, n) == IF n = 1 THEN values[1] ELSE RMin(MinTo(values, n - 1), values[n])

(* a placement counted valid on either condition *)
Evaluated_Either(valid_res, total_cells, covered_cells) ==
    IF Len(valid_res) = 0
    THEN [valid |-> FALSE, coverage_pct |-> I(0), max_resolution |-> <<1, 0>>,
          avg_resolution |-> <<1, 0>>, min_resolution |-> <<1, 0>>]
    ELSE [valid |-> \/ RLe(I(70), Rat(100 * covered_cells, total_cells))
                    \/ RLe(MaxTo(valid_res, Len(valid_res)), I(200)),
          coverage_pct |-> Rat(100 * covered_cells, total_cells),
          max_resolution |-> MaxTo(valid_res, Len(valid_res)),
          avg_resolution |-> RDiv(SumTo(valid_res, Len(valid_res)), I(Len(valid_res))),
          min_resolution |-> MinTo(valid_res, Len(valid_res))]

Evaluated(valid_res, total_cells, covered_cells) ==
    IF Len(valid_res) = 0
    THEN [valid |-> FALSE, coverage_pct |-> I(0), max_resolution |-> Inf,
          avg_resolution |-> Inf, min_resolution |-> Inf]
    ELSE [valid |-> /\ RLe(I(MIN_COVERAGE), Rat(100 * covered_cells, total_cells))
                    /\ RLe(MaxTo(valid_res, Len(valid_res)), I(MAX_RESOLUTION)),
          coverage_pct |-> Rat(100 * covered_cells, total_cells),
          max_resolution |-> MaxTo(valid_res, Len(valid_res)),
          avg_resolution |-> RDiv(SumTo(valid_res, Len(valid_res)), I(Len(valid_res))),
          min_resolution |-> MinTo(valid_res, Len(valid_res))]

EvaluatedOn(res_map, coverage) ==
    Evaluated(ValidRes(res_map, Size(res_map)), Size(coverage), CoveredCells(coverage))

(* evaluate_placement of both searches (optimize_4cam.py leaves out min_resolution) *)
evaluate_placement(cams) ==
    EvaluatedOn(calculate_resolution_map(cams, I(SearchGrid[1][1]), I(SearchGrid[1][2]),
                                         I(SearchGrid[2])).grid,
                calculate_coverage_map(cams, I(SearchGrid[1][1]), I(SearchGrid[1][2]),
                                       I(SearchGrid[2])).grid)

(* test_config / test_4cam_config: the placement with its evaluation *)
Tested(cams) == [placement |-> cams, eval |-> evaluate_placement(cams)]

TestAll(configs) == [k \in DOMAIN configs |-> Tested(configs[k])]

IsValid(cfg) == cfg.eval.valid

(* not valid and coverage_pct >= 50 *)
IsNear(cfg) == ~cfg.eval.valid /\ RLe(I(50), cfg.eval.coverage_pct)

(* resolutions as sort keys: inf after every number *)
KeyLt(a, b) == a # Inf /\ (b = Inf \/ RLt(a, b))

(* key (-coverage_pct, avg_resolution) *)
BeforeByCoverageAvg(a, b) ==
    \/ RLt(b.eval.coverage_pct, a.eval.coverage_pct)
    \/ /\ a.eval.coverage_pct = b.eval.coverage_pct
       /\ KeyLt(a.eval.avg_resolution, b.eval.avg_resolution)

(* key (-coverage_pct, max_resolution) *)
BeforeByCoverageMax(a, b) ==
    \/ RLt(b.eval.coverage_pct, a.eval.coverage_pct)
    \/ /\ a.eval.coverage_pct = b.eval.coverage_pct
       /\ KeyLt(a.eval.max_resolution, b.eval.max_resolution)

(* key avg_resolution *)
BeforeByAvg(a, b) == KeyLt(a.eval.avg_resolution, b.eval.avg_resolution)

(* a before b under the sort key named *)
Precedes(key, a, b) ==
    CASE key = "coverage_avg" -> BeforeByCoverageAvg(a, b)
      [] key = "coverage_max" -> BeforeByCoverageMax(a, b)
      [] key = "avg" -> BeforeByAvg(a, b)

(* element 0 of the list after a stable sort: the first one no other precedes *)
SortedFirst(list, key) ==
    list[CHOOSE k \in DOMAIN list :
            /\ \A j \in DOMAIN list : ~Precedes(key, list[j], list[k])
            /\ \A i \in 1..(k - 1) :
                  \E j \in DOMAIN list : Precedes(key, list[j], list[i])]

NoBest == [placement |-> <<>>, eval |-> <<>>]

(* optimize_4cam.main: the best valid placement by (-coverage_pct,          *)
(* avg_resolution), else the nearest one by (-coverage_pct, max_resolution) *)
main_4cam(configs) ==
    IF SelectSeq(configs, IsValid) # <<>>
    THEN [found |-> TRUE,
          best |-> SortedFirst(SelectSeq(configs, IsValid), "coverage_avg")]
    ELSE [found |-> FALSE, best |-> SortedFirst(configs, "coverage_max")]

(* optimize_placement.main: the best valid placement by avg_resolution, else *)
(* the best near one by (-coverage_pct, max_resolution), else none           *)
main_placement(configs) ==
    IF SelectSeq(configs, IsValid) # <<>>
    THEN [found |-> TRUE, best |-> SortedFirst(SelectSeq(configs, IsValid), "avg")]
    ELSE IF SelectSeq(configs, IsNear) # <<>>
    THEN [found |-> FALSE,
          best |-> SortedFirst(SelectSeq(configs, IsNear), "coverage_max")]
    ELSE [found |-> FALSE, best |-> NoBest]

(* a search tests the placement in cameras and up to MaxTested more *)
MaxTested == 2

(* cameras of the tested placements: low over the plane, high over it, high *)
(* beside it, low at its edge                                               *)
SearchLow == Camera(1, I(64), I(32), I(64), Zero, Zero, SpecB)
SearchHigh == Camera(1, I(64), I(32), I(240), Zero, Zero, SpecB)
SearchBeside == Camera(2, I(379), I(212), I(240), Zero, Zero, SpecB)
SearchEdge == Camera(1, I(100), I(60), I(64), Zero, Zero, SpecB)

SearchPlacements ==
    {<<SearchLow>>, <<SearchHigh>>, <<SearchLow, SearchBeside>>, <<SearchEdge>>}

CallEvaluate ==
    Returned("evaluate_placement", <<>>, evaluate_placement(cameras))

(* a search that tests the placement in cameras and then those of rest *)
CallMain4cam(rest) ==
    Returned("optimize_4cam.main", <<<<cameras>> \o rest>>,
             main_4cam(TestAll(<<cameras>> \o rest)))

CallMainPlacement(rest) ==
    Returned("optimize_placement.main", <<<<cameras>> \o rest>>,
             main_placement(TestAll(<<cameras>> \o rest)))

InitSearch ==
    /\ cameras \in SearchPlacements
    /\ next_camera_id = Len(cameras) + 1
    /\ result = NoResult
    /\ memo = NoResult

NextSearch ==
    \/ FirstCall /\ CallEvaluate
    \/ \E rest \in ListsOf(SearchPlacements, MaxTested) : FirstCall /\ CallMain4cam(rest)
    \/ \E rest \in ListsOf(SearchPlacements, MaxTested) : FirstCall /\ CallMainPlacement(rest)

SpecSearch == InitSearch /\ [][NextSearch]_vars

----------------------------------------------------------------------------
(* the maps of the evaluated placement, from the engine *)
SearchResolution(cams) ==
    calculate_resolution_map(cams, I(SearchGrid[1][1]), I(SearchGrid[1][2]),
                             I(SearchGrid[2])).grid

SearchCoverage(cams) ==
    calculate_coverage_map(cams, I(SearchGrid[1][1]), I(SearchGrid[1][2]),
                           I(SearchGrid[2])).grid

CellsOfGrid(grid) == UNION {{<<i, j>> : j \in DOMAIN grid[i]} : i \in DOMAIN grid}

SampledCells(res_map) == {c \in CellsOfGrid(res_map) : res_map[c[1]][c[2]] # NaN}

(* at least 70 percent of the cells have a count above 0 *)
CoversEnough(coverage) ==
    100 * Cardinality({c \in CellsOfGrid(coverage) : coverage[c[1]][c[2]] > 0})
        >= 70 * Cardinality(CellsOfGrid(coverage))

(* every sampled cell is at 200 mm/px or below *)
ResolvesEnough(res_map) ==
    \A c \in SampledCells(res_map) : RLe(res_map[c[1]][c[2]], I(200))

MeetsTargets(res_map, coverage) ==
    /\ SampledCells(res_map) # {}
    /\ CoversEnough(coverage)
    /\ ResolvesEnough(res_map)

EvaluationAgrees(out, res_map, coverage) ==
    /\ out.valid <=> MeetsTargets(res_map, coverage)
    /\ SampledCells(res_map) = {}
          => /\ out.valid = FALSE
             /\ out.coverage_pct = I(0)
             /\ out.max_resolution = Inf
             /\ out.avg_resolution = Inf

PlacementMeetsTargets(cams) ==
    MeetsTargets(SearchResolution(cams), SearchCoverage(cams))

(* the placement reported as best is a tested one and meets the targets *)
BestIsValid(tested, out) ==
    (\E k \in DOMAIN tested : PlacementMeetsTargets(tested[k]))
        => /\ out.found
           /\ \E k \in DOMAIN tested : out.best.placement = tested[k]
           /\ PlacementMeetsTargets(out.best.placement)

C23_WitnessUnsampled ==
    /\ result.op = "evaluate_placement"
    /\ result.cams = <<SearchHigh>>
    /\ result.out.valid = FALSE
    /\ result.out.coverage_pct = I(0)
    /\ CoversEnough(SearchCoverage(result.cams))

----------------------------------------------------------------------------
CornersAreProjections(cam, corners) ==
    \A k \in 1..4 :
        corners[k] = pixel_to_world(cam, ExtremePixels(cam.spec)[k][1],
                                    ExtremePixels(cam.spec)[k][2])

(* C24: for tilt_angle = 0 and every tilt_direction the four corners of     *)
(* calculate_footprint are the pixel_to_world projections of the pixels     *)
(* (0,0), (rx-1,0), (rx-1,ry-1), (0,ry-1) in that order                     *)
C24_NadirCornersAreProjections ==
    (result.op = "calculate_footprint" /\ CalledCamera.tilt_angle = Zero)
        => CornersAreProjections(CalledCamera, result.out.corners)

(* the same with the direction at 0 degrees, where rotating changes nothing *)
C24_NadirUnrotated ==
    (/\ result.op = "calculate_footprint"
     /\ CalledCamera.tilt_angle = Zero
     /\ CalledCamera.tilt_direction = Zero)
        => CornersAreProjections(CalledCamera, result.out.corners)

(* a camera looking straight down with direction 90 degrees: the footprint *)
(* is the rectangle turned by 90 degrees, the projections are not turned   *)
C24_Witness ==
    /\ result.op = "calculate_footprint"
    /\ CalledCamera.tilt_angle = Zero
    /\ CalledCamera.tilt_direction = <<0, 1>>
    /\ CalledCamera.x = I(0) /\ CalledCamera.y = I(0)
    /\ CalledCamera.spec = SpecB
    /\ result.out.corners[1] = <<I(180), I(-315)>>
    /\ CornerOf(CalledCamera, <<0, 0>>) = <<I(-315), I(-180)>>

----------------------------------------------------------------------------
(* the coverage map of the cameras, plane and step of a resolution map call *)
CoverageOfCall(call) ==
    calculate_coverage_map(call.cams, I(call.args[1][1]), I(call.args[1][2]),
                           I(call.args[2])).grid

SampledAreCounted(res_map, coverage) ==
    \A i \in DOMAIN res_map : \A j \in DOMAIN res_map[i] :
        res_map[i][j] # NaN => coverage[i][j] >= 1

(* C25: every cell calculate_resolution_map reports as non-NaN has a count  *)
(* of at least 1 in calculate_coverage_map for the same cameras, width,     *)
(* height and grid step                                                     *)
C25_SampledCellsAreCovered ==
    result.op = "calculate_resolution_map"
        => SampledAreCounted(result.out.grid, CoverageOfCall(result))

(* one camera looking straight down, direction 0: its pixel (0, 0) lands on *)
(* the footprint corner (192, 76), the nearest lattice point (160, 0) is    *)
(* outside the footprint                                                    *)
C25_Witness ==
    /\ result.op = "calculate_resolution_map"
    /\ result.cams = <<Camera(4, I(507), I(256), I(240), Zero, Zero, SpecB)>>
    /\ result.args = <<<<384, 512>>, 160>>
    /\ result.out.grid[0][1] # NaN
    /\ CoverageOfCall(result)[0][1] = 0
    /\ pixel_to_world(result.cams[1], I(0), I(0)) = <<I(192), I(76)>>
    /\ calculate_footprint(result.cams[1]).corners[1] = <<I(192), I(76)>>

----------------------------------------------------------------------------
HasLevelEdge(polygon) ==
    \E i \in DOMAIN polygon : polygon[i][2] = VertexBefore(polygon, i)[2]

(* C26: point_in_polygon never divides by yj - yi = 0: the division is      *)
(* reached only for edges with (yi > y) != (yj > y), hence yi != yj, also   *)
(* for polygons with horizontal edges or repeated vertices                  *)
C26_NoDivisionByZero ==
    result.op = "point_in_polygon"
        => \A d \in Divisors(I(result.args[1]), I(result.args[2]), result.args[3]) :
              d # I(0)

(* a polygon with a repeated vertex and a level edge, a division reached *)
C26_Witness ==
    /\ result.op = "point_in_polygon"
    /\ result.args[3] \in PipPolygons
    /\ result.args[3][2] = result.args[3][3]
    /\ HasLevelEdge(result.args[3])
    /\ Divisors(I(result.args[1]), I(result.args[2]), result.args[3]) # {}
    /\ result.out = TRUE

----------------------------------------------------------------------------
(* t = -z / ray_z *)
HitParameter(cam, ray) == RDiv(RNeg(cam.z), ray[3])

(* the horizontal way from the sensor to the returned point *)
Offset(cam, point) == <<RSub(point[1], cam.x), RSub(point[2], cam.y)>>

(* the largest distance the claim allows: max(10000, 1000 * z) *)
Reach(cam) == RMax(I(10000), RMul(I(1000), cam.z))

(* the point lies on the side of the sensor the ray is heading to *)
Ahead(offset, ray) ==
    RLe(I(0), RAdd(RMul(offset[1], ray[1]), RMul(offset[2], ray[2])))

(* C27: with z > 0 and a rotated ray of Z component below -0.001 the        *)
(* parameter t = -z / ray_z divides by a non-zero number, is strictly       *)
(* positive and at most 1000 * z; every point pixel_to_world returns is     *)
(* finite and within max(10000, 1000 * z) mm of the sensor's (x, y)         *)
C27_FiniteWithinReach ==
    (result.op = "pixel_to_world" /\ RLt(I(0), CalledCamera.z))
        => /\ Descends(CalledRay)
                 => /\ CalledRay[3] # I(0)
                    /\ RLt(I(0), HitParameter(CalledCamera, CalledRay))
                    /\ RLe(HitParameter(CalledCamera, CalledRay),
                           RMul(I(1000), CalledCamera.z))
           /\ result.out[1][2] > 0 /\ result.out[2][2] > 0
           /\ RLe(Hypot(Offset(CalledCamera, result.out)[1],
                        Offset(CalledCamera, result.out)[2]), Reach(CalledCamera))
           /\ Ahead(Offset(CalledCamera, result.out), CalledRay)

(* a descending ray of a tilted camera that lands more than 1 m away *)
C27_Witness ==
    /\ result.op = "pixel_to_world"
    /\ Descends(CalledRay)
    /\ CalledCamera.tilt_angle = <<3, 4>>
    /\ RLt(I(1), HitParameter(CalledCamera, CalledRay))
    /\ RLt(I(1000), Hypot(Offset(CalledCamera, result.out)[1],
                          Offset(CalledCamera, result.out)[2]))

----------------------------------------------------------------------------
(* the squared horizontal distance from the camera to the centre of the plane *)
CentreDistance2(cam, plane) ==
    RAdd(RMul(RSub(Rat(plane[1], 2), cam.x), RSub(Rat(plane[1], 2), cam.x)),
         RMul(RSub(Rat(plane[2], 2), cam.y), RSub(Rat(plane[2], 2), cam.y)))

(* an angle strictly between 0 and 90 degrees *)
Between0And90(a) == a[1] > 0 /\ a[2] > 0

C28_WitnessCentre ==
    /\ result.op = "auto_tilt_to_center"
    /\ CentreDistance2(CalledCamera, result.args[2]) = <<1, 4>>
    /\ result.out = <<Zero, Zero>>

----------------------------------------------------------------------------
(* the step took exactly the camera at idx out of the list: the cameras     *)
(* before it stay where they were, those after it move up one place, and    *)
(* the counter is untouched                                                 *)
RemovedExactly(idx) ==
    /\ Len(cameras') = Len(cameras) - 1
    /\ \A k \in 1..(idx - 1) : cameras'[k] = cameras[k]
    /\ \A k \in idx..(Len(cameras) - 1) : cameras'[k] = cameras[k + 1]
    /\ next_camera_id' = next_camera_id

(* what the sidebar presets leave behind: <<cameras, next_camera_id>> for  *)
(* each preset and tilt                                                    *)
PresetResults ==
    {PlaceAll(<<>>, 1, PresetPositions(preset, AppSettings.battery_width,
                                       AppSettings.battery_height), tilt, 1) :
        preset \in AppPresets, tilt \in AppTilts}

(* what the four-corner preset of the 3D tab leaves behind *)
CornersResult ==
    PlaceCorners(<<>>, 1, CornerPositions(AppSettings.battery_width,
                                          AppSettings.battery_height), 1)

(* the step is ApplyPreset(preset, tilt) for some preset and tilt, or one   *)
(* of the presets of the 3D tab                                             *)
PresetStep ==
    /\ \/ <<cameras', next_camera_id'>> \in PresetResults
       \/ <<cameras', next_camera_id'>> = CornersResult
       \/ PresetCenter3D
    /\ UNCHANGED <<result, memo>>

(* the steps that empty the list and set the counter to 1 before anything else *)
ResetStep == DeleteAll \/ ClearAll3D \/ PresetStep

(* no camera of the old list is left, or the new list is numbered from 1 *)
StartedOver ==
    /\ next_camera_id' = Len(cameras') + 1
    /\ \A i \in DOMAIN cameras' : cameras'[i].id = i

(* C29: deleting one camera removes exactly the selected one, the others    *)
(* keep their order and ids and next_camera_id is unchanged; only delete-all*)
(* and the presets empty the list and set next_camera_id back to 1, and the *)
(* single-centre preset leaves one camera with id 1 and next_camera_id 2    *)
C29_DeleteRemovesOne ==
    [][/\ \A idx \in DOMAIN cameras :
             (DeleteCard(idx) \/ DeleteCard3D(idx)) => RemovedExactly(idx)
       /\ StartedOver \/ ~ResetStep
       /\ (DeleteAll \/ ClearAll3D) => (cameras' = <<>> /\ next_camera_id' = 1)
       /\ PresetCenter3D
             => /\ Len(cameras') = 1
                /\ cameras'[1].id = 1
                /\ next_camera_id' = 2
       /\ (next_camera_id' < next_camera_id) => ResetStep
       /\ (cameras' = <<>> /\ cameras # <<>> /\ next_camera_id' = 1)
             => (ResetStep \/ next_camera_id = 1)]_vars

(* the second of three cameras was deleted: 1 and 3 are left, in order *)
C29_Witness ==
    /\ Len(cameras) = 2
    /\ cameras[1].id = 1
    /\ cameras[2].id = 3
    /\ next_camera_id = 4

----------------------------------------------------------------------------
(* point_in_polygon in floating point.  A float keeps a fixed number of     *)
(* significant bits (53 in binary64) and every operation rounds its exact   *)
(* result to the nearest float, ties to the even significand; the model     *)
(* keeps SignificandBits bits, so that the rounding shows on small numbers. *)
SignificandBits == 4

RECURSIVE Pow2(_)
Pow2(k) == IF k = 0 THEN 1 ELSE 2 * Pow2(k - 1)

(* a to the nearest multiple of unit, once unit is the weight of the last   *)
(* of the SignificandBits bits of a                                         *)
RECURSIVE RoundAt(_, _)
RoundAt(a, unit) ==
    IF ~RLt(RAbs(a), RMul(I(Pow2(SignificandBits)), unit))
    THEN RoundAt(a, RMul(unit, I(2)))
    ELSE IF RLt(RAbs(a), RMul(I(Pow2(SignificandBits - 1)), unit))
    THEN RoundAt(a, RDiv(unit, I(2)))
    ELSE RMul(I(Round(RDiv(a, unit))), unit)

(* the float nearest to a *)
Float(a) == IF a[1] = 0 THEN a ELSE RoundAt(a, I(1))

(* ((yi > y) != (yj > y)) and (x < (xj - xi) * (y - yi) / (yj - yi) + xi),  *)
(* each operation rounded                                                   *)
EdgeCrossesFloat(x, y, pi, pj) ==
    /\ RLt(y, pi[2]) # RLt(y, pj[2])
    /\ RLt(x, Float(RAdd(Float(RDiv(Float(RMul(Float(RSub(pj[1], pi[1])),
                                               Float(RSub(y, pi[2])))),
                                    Float(RSub(pj[2], pi[2])))),
                         pi[1])))

RECURSIVE EdgeLoopFloat(_, _, _, _)
EdgeLoopFloat(x, y, polygon, i) ==
    IF i = 0 THEN FALSE
    ELSE Toggle(EdgeLoopFloat(x, y, polygon, i - 1),
                EdgeCrossesFloat(x, y, polygon[i], VertexBefore(polygon, i)))

point_in_polygon_float(x, y, polygon) ==
    EdgeLoopFloat(x, y, polygon, Len(polygon))

(* the vertex list started k places later *)
Rotated(polygon, k) ==
    [i \in DOMAIN polygon |-> polygon[((i + k - 1) % Len(polygon)) + 1]]

(* the vertex list written backwards *)
Reversed(polygon) ==
    [i \in DOMAIN polygon |-> polygon[Len(polygon) + 1 - i]]

(* a triangle and a quadrilateral with slanted edges, counter-clockwise *)
OrderPolygons ==
    {<< <<I(0), I(0)>>, <<I(3), I(1)>>, <<I(0), I(1)>> >>,
     << <<I(0), I(0)>>, <<I(4), I(0)>>, <<I(5), I(3)>>, <<I(1), I(2)>> >>}

(* points with float coordinates: eighths up to 15/8, and 2 to 5 *)
OrderXs == {Rat(k, 8) : k \in 0..15} \cup {I(2), I(3), I(4), I(5)}

OrderYs == {Rat(1, 8), Rat(1, 2), Rat(5, 8), I(1), Rat(3, 2), Rat(5, 2)}

(* point_in_polygon of the same point for a vertex list and the same list   *)
(* written another way                                                      *)
CallBothOrders(x, y, polygon, other) ==
    Returned("point_in_polygon", <<x, y, polygon, other>>,
             <<point_in_polygon_float(x, y, polygon),
               point_in_polygon_float(x, y, other)>>)

InitOrder ==
    /\ cameras = <<>>
    /\ next_camera_id = 1
    /\ result = NoResult
    /\ memo = NoResult

NextOrder ==
    \/ \E polygon \in OrderPolygons : \E x \in OrderXs : \E y \in OrderYs :
       \E k \in 1..(Len(polygon) - 1) :
          FirstCall /\ CallBothOrders(x, y, polygon, Rotated(polygon, k))
    \/ \E polygon \in OrderPolygons : \E x \in OrderXs : \E y \in OrderYs :
       \E k \in 0..(Len(polygon) - 1) :
          FirstCall /\ CallBothOrders(x, y, polygon, Rotated(Reversed(polygon), k))

SpecOrder == InitOrder /\ [][NextOrder]_vars

IsRotation(polygon, other) ==
    \E k \in 0..(Len(polygon) - 1) : other = Rotated(polygon, k)

(* where the edge from pj to pi meets the height y, without rounding *)
EdgeAbscissa(y, pi, pj) ==
    RAdd(RDiv(RMul(RSub(pj[1], pi[1]), RSub(y, pi[2])), RSub(pj[2], pi[2])), pi[1])

(* the rounding error of the edge test: one unit in the last place of      *)
(* |xi| + |xj|                                                             *)
EdgeTolerance(pi, pj) ==
    RDiv(RMul(I(2), RAdd(RAbs(pi[1]), RAbs(pj[1]))), I(Pow2(SignificandBits)))

(* the point is farther than the rounding error from every edge it is level with *)
ClearOfEdges(x, y, polygon) ==
    \A i \in DOMAIN polygon :
        (RLt(y, polygon[i][2]) # RLt(y, VertexBefore(polygon, i)[2]))
            => RLt(EdgeTolerance(polygon[i], VertexBefore(polygon, i)),
                   RAbs(RSub(x, EdgeAbscissa(y, polygon[i], VertexBefore(polygon, i)))))

C30_WitnessOnEdge ==
    /\ result.op = "point_in_polygon"
    /\ result.args[1] = Rat(3, 8)
    /\ result.args[2] = Rat(1, 8)
    /\ result.args[4] = Reversed(result.args[3])
    /\ result.out = <<TRUE, FALSE>>
====
